---------------------------- MODULE Spec2Model ----------------------------
(***************************************************************************)
(* Face-tracking controllers of the animatronic head.                      *)
(*                                                                         *)
(* Part I models the combined tracker TEST_SEGUIMIENTO_COMPLETO.py: one    *)
(* loop iteration (eyes, then head, then eyelids) is one action.           *)
(*                                                                         *)
(* Numbers.  The program computes in floating point; the model computes    *)
(* in fixed point:                                                         *)
(*   angles             in 1/1000 degree  (90 degrees = 90000)             *)
(*   normalised errors  in 1/1000         (1.0 = 1000)                     *)
(*   gains g, weights w in 1/1000                                          *)
(*   time               in milliseconds                                    *)
(*   integrals          in 1/1000 * second                                 *)
(* Every division rounds to the nearest unit (RoundDiv).                   *)
(*                                                                         *)
(* Time.  The program only ever uses differences of time stamps (now -     *)
(* last_seen, now - phase_t0, now >= next_blink_time).  The model keeps    *)
(* every time stamp relative to the `now' of the latest loop iteration, so *)
(* `now' is 0 and a stamp in the past is negative; an iteration that finds *)
(* the clock advanced by adv shifts every stamp by -adv.  Stamps saturate  *)
(* at a value beyond which every comparison the program makes is decided.  *)
(***************************************************************************)
EXTENDS Integers, Sequences, FiniteSets, TLC

\* ------------------------------------------------------------------------
\* Constants of TEST_SEGUIMIENTO_COMPLETO.py
\* ------------------------------------------------------------------------
SERVO_ROLL_LEFT == 12
SERVO_ROLL_RIGHT == 15
SERVO_PITCH == 14
SERVO_YAW == 13
PIN_OJO_IZQ_H == 10
PIN_OJO_IZQ_V == 8
PIN_OJO_DER_H == 11
PIN_OJO_DER_V == 9
PIN_PARPADO_ABAJO == 6
PIN_PARPADO_ARRIBA == 7

EyePins == {PIN_OJO_IZQ_H, PIN_OJO_IZQ_V, PIN_OJO_DER_H, PIN_OJO_DER_V}
HeadPins == {SERVO_YAW, SERVO_PITCH, SERVO_ROLL_LEFT, SERVO_ROLL_RIGHT}
LidPins == {PIN_PARPADO_ABAJO, PIN_PARPADO_ARRIBA}
Pins == EyePins \cup HeadPins \cup LidPins

\* degrees
PITCH_MIN == 60
PITCH_MAX == 180
PITCH_CENTER == 120
ROLL_MIN == 130
ROLL_MAX == 180
ROLL_CENTER == 155
YAW_MIN == 90
YAW_MAX == 180
YAW_CENTER == 135
H_MIN == 15
H_MAX == 165
H_CENTER == 90
V_MIN_IZQ == 90
V_MAX_IZQ == 120
V_CENTER_IZQ == 90
V_MIN_DER == 70
V_MAX_DER == 110
V_CENTER_DER == 90
ANGLE_MIN_PARPADO_ABAJO == 60
ANGLE_MAX_PARPADO_ABAJO == 130
ANGLE_MIN_PARPADO_ARRIBA == 90
ANGLE_MAX_PARPADO_ARRIBA == 140

\* pixels
FRAME_W == 640
FRAME_H == 480
DEADBAND_PX_X_EYES == 20
DEADBAND_PX_Y_EYES == 22
DEADBAND_PX_Y_HEAD == 15
DEADBAND_PX_X_HEAD == 40

\* signs
INVERT_H == -1
INVERT_V_IZQ == -1
INVERT_V_DER == 1
INVERT_PITCH == -1
INVERT_YAW == -1

\* gains: H_ABS_GAIN_DEG, KP_* in units; KI_*, KD_*, SMOOTH_ALPHA_*,
\* ERR_LP_ALPHA in hundredths (KD_H = 0.25 is 25, KI_YAW = 0.01 is 1)
H_ABS_GAIN_DEG == 65
KP_H == 9
KI_H == 0
KD_H == 25
KP_V == 9
KI_V == 0
KD_V == 10
SMOOTH_ALPHA_H == 48
SMOOTH_ALPHA_V == 35
ERR_LP_ALPHA == 28
KP_PITCH == 20
KI_PITCH == 5
KD_PITCH == 100
SMOOTH_ALPHA_PITCH == 50
KP_YAW == 7
KI_YAW == 1
KD_YAW == 0
SMOOTH_ALPHA_YAW == 25

\* integral clamps, in 1/1000 * second (25.0 is 25000)
I_CLAMP_EYES == 25000
I_CLAMP_HEAD == 30000

\* 1/1000 degree per iteration
MAX_STEP_DEG_H == 3000
MAX_STEP_DEG_V == 2000

\* milliseconds
RETURN_CENTER_AFTER_MS_EYES == 6000
LOST_AFTER_MS == 300
RETURN_CENTER_AFTER_MS_HEAD == 8000

\* degrees per second
SEARCH_RATE_DPS_Y == 30
SEARCH_RATE_DPS_X == 25

\* the proportional step of the return to centre (0.15), in hundredths
CENTER_STEP == 15

\* ------------------------------------------------------------------------
\* Fixed-point helpers
\* ------------------------------------------------------------------------
Abs(x) == IF x < 0 THEN -x ELSE x

Min(a, b) == IF a < b THEN a ELSE b

Max(a, b) == IF a > b THEN a ELSE b

\* n / d rounded to the nearest integer (d > 0), halves upwards
RoundDiv(n, d) == (2 * n + d) \div (2 * d)

\* degrees to 1/1000 degree
Deg(d) == d * 1000

\* int(round(x)) of Python 3 on an angle in 1/1000 degree: nearest degree,
\* a half to the even degree; the result again in 1/1000 degree
PyRound(x) ==
    LET q == x \div 1000
        r == x % 1000
    IN  IF r < 500 THEN Deg(q)
        ELSE IF r > 500 THEN Deg(q + 1)
        ELSE IF q % 2 = 0 THEN Deg(q) ELSE Deg(q + 1)

clampNone(v, lo, hi) == v

clamp(v, lo, hi) == IF v < lo THEN lo ELSE IF v > hi THEN hi ELSE v

\* w in 1/1000
mix(a, b, w) == RoundDiv(w * a + (1000 - w) * b, 1000)

limit_stepNone(current, target, max_step) == target

limit_step(current, target, max_step) ==
    IF target > current THEN Min(target, current + max_step)
    ELSE Max(target, current - max_step)

\* e, e0, min_gain and the result in 1/1000
near_gain(e, e0, min_gain) ==
    LET a == Abs(e)
    IN  IF a >= e0 THEN 1000
        ELSE min_gain + RoundDiv((1000 - min_gain) * a, e0)

\* 3t^2 - 3t^3: the easing with a slip in the cubic coefficient
ease_in_out_slip(t) == (t * t * (3000 - 3 * t)) \div 1000000

\* 3t^2 - 2t^3, t and the result in 1/1000
ease_in_out(t) == (t * t * (3000 - 2 * t)) \div 1000000

\* ------------------------------------------------------------------------
\* State
\* ------------------------------------------------------------------------
VARIABLES
    eyes,       \* ESTADOS OJOS: last_h_izq, last_v_izq, last_h_der, last_v_der,
                \* last_err_h_e, sum_err_h_e, last_err_v_e, sum_err_v_e,
                \* err_x_f, err_y_f, last_seen_ms_eyes, is_centered_eyes
    head,       \* ESTADOS CABEZA: last_yaw, last_pitch, last_err_yaw,
                \* sum_err_yaw, last_err_pitch, sum_err_pitch,
                \* last_seen_ms_head, last_seen_dir_x, last_seen_dir_y,
                \* is_centered_head, returning_to_center_head
    blink,      \* ESTADO PARPADEO: blink_phase, phase_t0, next_blink_time,
                \* blink_queue, dur_close_sup, dur_open_sup, dur_close_inf,
                \* dur_open_inf, hold_dur
    servo,      \* kit.servo[pin].angle: the angle last commanded to each pin
    writes,     \* the pins commanded by the latest step, in order
    pc,         \* "loop": in the while loop; "exited": after sys.exit
    tick,       \* what the latest loop iteration saw and did: have_face,
                \* face_cx, face_cy, dt, eyes_did, head_did, blink_did, the pins
                \* each of the three parts commanded, the time slept
    cleanups,   \* how many times cleanup_and_exit has run
    frames,     \* loop iterations charged against the bound of the model
    run,        \* the scenario of a held-face run (SpecRun), else NoRun
    inmoov,     \* the InMoovFaceTracker object of inmoov_face_tracker.py
    cn,         \* the state of test_seguimiento_cnOJOS.py, its servos included
    svc,        \* the ServoService object of src/services/servo_service.py
    axis        \* one axis under a constant target: last angle, desired angle,
                \* smoothing alpha, step limit

vars ==
    <<eyes, head, blink, servo, writes, pc, tick, cleanups, frames, run, inmoov, cn, svc, axis>>

cx_frame == FRAME_W \div 2

cy_frame == FRAME_H \div 2

\* USE_OFFSET_FRAC with OFFSET_X_FRAC = OFFSET_Y_FRAC = 0.00
tx == cx_frame + 0 * FRAME_W

ty == cy_frame + 0 * FRAME_H

\* a stamp of the past, moved adv milliseconds further back, kept at floor
\* once it is there
Shift(stamp, adv, floor) == Max(stamp - adv, floor)

\* the pixel error after the deadband
DeadbandStrict(err_px, deadband) == IF Abs(err_px) < deadband THEN 0 ELSE err_px

Deadband(err_px, deadband) == IF Abs(err_px) <= deadband THEN 0 ELSE err_px

\* pixel error to normalised error (1/1000), half being w / 2.0 or h / 2.0
Normalise(err_px, half) == RoundDiv(err_px * 1000, half)

\* the integrator with anti-windup: sum + err * dt, clamped
IntegrateNoClamp(sum, err, dt, i_clamp) == sum + RoundDiv(err * dt, 1000)

Integrate(sum, err, dt, i_clamp) ==
    clamp(sum + RoundDiv(err * dt, 1000), -i_clamp, i_clamp)

\* (err - last_err) / dt, in 1/1000 per second
Derivative(err, last_err, dt) == RoundDiv((err - last_err) * 1000, dt)

\* kp * err + ki * sum + kd * der, in 1/1000 degree
PidOut(kp, ki, kd, err, sum, der) ==
    kp * err + RoundDiv(ki * sum, 100) + RoundDiv(kd * der, 100)

SmoothNone(alpha, desired, last) == last

\* alpha * desired + (1 - alpha) * last, alpha in hundredths
Smooth(alpha, desired, last) == RoundDiv(alpha * desired + (100 - alpha) * last, 100)

\* int(ROLL_MAX - ((pitch - PITCH_MIN) / (PITCH_MAX - PITCH_MIN)) * (ROLL_MAX - ROLL_MIN))
\* for the integer pitch command (1/1000 degree in, 1/1000 degree out)
RollFor(pitch_cmd) ==
    Deg((ROLL_MAX * (PITCH_MAX - PITCH_MIN)
         - ((pitch_cmd \div 1000) - PITCH_MIN) * (ROLL_MAX - ROLL_MIN))
        \div (PITCH_MAX - PITCH_MIN))

\* ------------------------------------------------------------------------
\* 1) OJOS
\* ------------------------------------------------------------------------
CenterEyesAndLidsCmds ==
    << <<PIN_OJO_IZQ_H, Deg(H_CENTER)>>, <<PIN_OJO_DER_H, Deg(H_CENTER)>>,
       <<PIN_OJO_IZQ_V, Deg(V_CENTER_IZQ)>>, <<PIN_OJO_DER_V, Deg(V_CENTER_DER)>>,
       <<PIN_PARPADO_ARRIBA, Deg(ANGLE_MIN_PARPADO_ARRIBA)>>,
       <<PIN_PARPADO_ABAJO, Deg(ANGLE_MIN_PARPADO_ABAJO)>> >>

CenterEyesCmds ==
    << <<PIN_OJO_IZQ_H, Deg(H_CENTER)>>, <<PIN_OJO_DER_H, Deg(H_CENTER)>>,
       <<PIN_OJO_IZQ_V, Deg(V_CENTER_IZQ)>>, <<PIN_OJO_DER_V, Deg(V_CENTER_DER)>> >>

\* have_face: deadband, low-pass, PID, mix ABS + INC, smoothing, slew rate
EyesTrack(e, face_cx, face_cy, dt) ==
    LET err_x_e == Normalise(Deadband(face_cx - tx, DEADBAND_PX_X_EYES), FRAME_W \div 2)
        err_y_e == Normalise(Deadband(face_cy - ty, DEADBAND_PX_Y_EYES), FRAME_H \div 2)
        err_x_f == RoundDiv((100 - ERR_LP_ALPHA) * e.err_x_f + ERR_LP_ALPHA * err_x_e, 100)
        err_y_f == RoundDiv((100 - ERR_LP_ALPHA) * e.err_y_f + ERR_LP_ALPHA * err_y_e, 100)
        g_h == near_gain(err_x_f, 250, 350)
        g_v == near_gain(err_y_f, 250, 400)
        sum_h == Integrate(e.sum_err_h_e, err_x_f, dt, I_CLAMP_EYES)
        der_h == Derivative(err_x_f, e.last_err_h_e, dt)
        pid_h == RoundDiv(PidOut(KP_H, KI_H, KD_H, err_x_f, sum_h, der_h) * g_h, 1000)
        sum_v == Integrate(e.sum_err_v_e, err_y_f, dt, I_CLAMP_EYES)
        der_v == Derivative(err_y_f, e.last_err_v_e, dt)
        pid_v == RoundDiv(PidOut(KP_V, KI_V, KD_V, err_y_f, sum_v, der_v) * g_v, 1000)
        abs_h == clamp(Deg(H_CENTER) + INVERT_H * RoundDiv(H_ABS_GAIN_DEG * g_h * err_x_f, 1000),
                       Deg(H_MIN), Deg(H_MAX))
        inc_h_izq == clamp(e.last_h_izq + INVERT_H * pid_h, Deg(H_MIN), Deg(H_MAX))
        inc_h_der == clamp(e.last_h_der + INVERT_H * pid_h, Deg(H_MIN), Deg(H_MAX))
        w_abs == RoundDiv(600 * near_gain(err_x_f, 350, 250), 1000)
        desired_h_izq == mix(abs_h, inc_h_izq, w_abs)
        desired_h_der == mix(abs_h, inc_h_der, w_abs)
        desired_v_izq == clamp(e.last_v_izq + INVERT_V_IZQ * pid_v, Deg(V_MIN_IZQ), Deg(V_MAX_IZQ))
        desired_v_der == clamp(e.last_v_der + INVERT_V_DER * pid_v, Deg(V_MIN_DER), Deg(V_MAX_DER))
        smooth_h_izq == limit_step(e.last_h_izq,
                            Smooth(SMOOTH_ALPHA_H, desired_h_izq, e.last_h_izq), MAX_STEP_DEG_H)
        smooth_h_der == limit_step(e.last_h_der,
                            Smooth(SMOOTH_ALPHA_H, desired_h_der, e.last_h_der), MAX_STEP_DEG_H)
        smooth_v_izq == limit_step(e.last_v_izq,
                            Smooth(SMOOTH_ALPHA_V, desired_v_izq, e.last_v_izq), MAX_STEP_DEG_V)
        smooth_v_der == limit_step(e.last_v_der,
                            Smooth(SMOOTH_ALPHA_V, desired_v_der, e.last_v_der), MAX_STEP_DEG_V)
    IN  [st |-> [e EXCEPT !.err_x_f = err_x_f, !.err_y_f = err_y_f,
                          !.sum_err_h_e = sum_h, !.last_err_h_e = err_x_f,
                          !.sum_err_v_e = sum_v, !.last_err_v_e = err_y_f,
                          !.last_h_izq = smooth_h_izq, !.last_h_der = smooth_h_der,
                          !.last_v_izq = smooth_v_izq, !.last_v_der = smooth_v_der,
                          !.last_seen_ms_eyes = 0],
         cmds |-> << <<PIN_OJO_IZQ_H, PyRound(smooth_h_izq)>>,
                     <<PIN_OJO_DER_H, PyRound(smooth_h_der)>>,
                     <<PIN_OJO_IZQ_V, PyRound(smooth_v_izq)>>,
                     <<PIN_OJO_DER_V, PyRound(smooth_v_der)>> >>,
         did |-> "track"]

\* the return to the centre as a jump
JumpToCenter(last, center, lo, hi) == clamp(center, lo, hi)

\* one axis of the return to centre: last + (centre - last) * step, clamped
EaseToCenter(last, center, lo, hi) ==
    clamp(last + RoundDiv((center - last) * CENTER_STEP, 100), lo, hi)

\* no face: return to centre after RETURN_CENTER_AFTER_MS_EYES
EyesNoFace(e) ==
    LET time_without_e == 0 - e.last_seen_ms_eyes
        h_izq == EaseToCenter(e.last_h_izq, Deg(H_CENTER), Deg(H_MIN), Deg(H_MAX))
        h_der == EaseToCenter(e.last_h_der, Deg(H_CENTER), Deg(H_MIN), Deg(H_MAX))
        v_izq == EaseToCenter(e.last_v_izq, Deg(V_CENTER_IZQ), Deg(V_MIN_IZQ), Deg(V_MAX_IZQ))
        v_der == EaseToCenter(e.last_v_der, Deg(V_CENTER_DER), Deg(V_MIN_DER), Deg(V_MAX_DER))
        cmds == << <<PIN_OJO_IZQ_H, PyRound(h_izq)>>, <<PIN_OJO_DER_H, PyRound(h_der)>>,
                   <<PIN_OJO_IZQ_V, PyRound(v_izq)>>, <<PIN_OJO_DER_V, PyRound(v_der)>> >>
        near == /\ Abs(Deg(H_CENTER) - h_izq) < 1000
                /\ Abs(Deg(H_CENTER) - h_der) < 1000
                /\ Abs(Deg(V_CENTER_IZQ) - v_izq) < 1000
                /\ Abs(Deg(V_CENTER_DER) - v_der) < 1000
    IN  IF time_without_e > RETURN_CENTER_AFTER_MS_EYES /\ ~e.is_centered_eyes
        THEN IF near
             THEN [st |-> [e EXCEPT !.last_h_izq = Deg(H_CENTER), !.last_h_der = Deg(H_CENTER),
                                    !.last_v_izq = Deg(V_CENTER_IZQ),
                                    !.last_v_der = Deg(V_CENTER_DER),
                                    !.is_centered_eyes = TRUE],
                   cmds |-> cmds \o CenterEyesCmds,
                   did |-> "centered"]
             ELSE [st |-> [e EXCEPT !.last_h_izq = h_izq, !.last_h_der = h_der,
                                    !.last_v_izq = v_izq, !.last_v_der = v_der],
                   cmds |-> cmds,
                   did |-> "centering"]
        ELSE [st |-> e, cmds |-> << >>, did |-> "none"]

\* ------------------------------------------------------------------------
\* 2) CABEZA
\* ------------------------------------------------------------------------
CenterHeadCmds ==
    << <<SERVO_YAW, Deg(YAW_CENTER)>>, <<SERVO_PITCH, Deg(PITCH_CENTER)>>,
       <<SERVO_ROLL_LEFT, Deg(ROLL_CENTER)>>, <<SERVO_ROLL_RIGHT, Deg(ROLL_CENTER)>> >>

\* a pitch command that leaves the roll servos alone
PitchOnlyCmds(pitch) == << <<SERVO_PITCH, PyRound(pitch)>> >>

\* pitch command followed by the two roll commands derived from it
PitchRollCmds(pitch) ==
    << <<SERVO_PITCH, PyRound(pitch)>>,
       <<SERVO_ROLL_LEFT, RollFor(PyRound(pitch))>>,
       <<SERVO_ROLL_RIGHT, RollFor(PyRound(pitch))>> >>

\* have_face: flags cleared, YAW and PITCH by the classic PID, ROLL inverse
\* to the pitch, last seen state
HeadTrack(h, face_cx, face_cy, dt) ==
    LET err_x_head == Normalise(Deadband((face_cx - cx_frame) * INVERT_YAW, DEADBAND_PX_X_HEAD),
                                FRAME_W \div 2)
        sum_yaw == Integrate(h.sum_err_yaw, err_x_head, dt, I_CLAMP_HEAD)
        der_x == Derivative(err_x_head, h.last_err_yaw, dt)
        pid_out_yaw == PidOut(KP_YAW, KI_YAW, KD_YAW, err_x_head, sum_yaw, der_x)
        desired_yaw == clamp(h.last_yaw + pid_out_yaw, Deg(YAW_MIN), Deg(YAW_MAX))
        smooth_yaw == Smooth(SMOOTH_ALPHA_YAW, desired_yaw, h.last_yaw)
        err_y_head == Normalise(Deadband((face_cy - cy_frame) * INVERT_PITCH, DEADBAND_PX_Y_HEAD),
                                FRAME_H \div 2)
        sum_pitch == Integrate(h.sum_err_pitch, err_y_head, dt, I_CLAMP_HEAD)
        der_y == Derivative(err_y_head, h.last_err_pitch, dt)
        pid_out_pitch == PidOut(KP_PITCH, KI_PITCH, KD_PITCH, err_y_head, sum_pitch, der_y)
        desired_pitch == clamp(h.last_pitch + pid_out_pitch, Deg(PITCH_MIN), Deg(PITCH_MAX))
        smooth_pitch == Smooth(SMOOTH_ALPHA_PITCH, desired_pitch, h.last_pitch)
    IN  [st |-> [h EXCEPT !.is_centered_head = FALSE, !.returning_to_center_head = FALSE,
                          !.sum_err_yaw = sum_yaw, !.last_err_yaw = err_x_head,
                          !.last_yaw = smooth_yaw,
                          !.sum_err_pitch = sum_pitch, !.last_err_pitch = err_y_head,
                          !.last_pitch = smooth_pitch,
                          !.last_seen_ms_head = 0,
                          !.last_seen_dir_x = IF face_cx < cx_frame THEN -1 ELSE 1,
                          !.last_seen_dir_y = IF face_cy < cy_frame THEN -1 ELSE 1],
         cmds |-> << <<SERVO_YAW, PyRound(smooth_yaw)>> >> \o PitchRollCmds(smooth_pitch),
         did |-> "track"]

\* a return that clears the PID state of the head when it ends
HeadReturnResetting(h) ==
    LET diff_yaw == Deg(YAW_CENTER) - h.last_yaw
        diff_pitch == Deg(PITCH_CENTER) - h.last_pitch
        yaw == clamp(h.last_yaw + RoundDiv(diff_yaw * CENTER_STEP, 100),
                     Deg(YAW_MIN), Deg(YAW_MAX))
        pitch == clamp(h.last_pitch + RoundDiv(diff_pitch * CENTER_STEP, 100),
                       Deg(PITCH_MIN), Deg(PITCH_MAX))
    IN  IF Abs(diff_yaw) > 1000 \/ Abs(diff_pitch) > 1000
        THEN [st |-> [h EXCEPT !.returning_to_center_head = TRUE,
                               !.last_yaw = yaw, !.last_pitch = pitch],
              cmds |-> << <<SERVO_YAW, PyRound(yaw)>> >> \o PitchRollCmds(pitch),
              did |-> "centering"]
        ELSE [st |-> [h EXCEPT !.last_yaw = Deg(YAW_CENTER), !.last_pitch = Deg(PITCH_CENTER),
                               !.is_centered_head = TRUE,
                               !.returning_to_center_head = FALSE,
                               !.last_seen_dir_x = 0, !.last_seen_dir_y = 0,
                               !.sum_err_yaw = 0, !.last_err_yaw = 0,
                               !.sum_err_pitch = 0, !.last_err_pitch = 0],
              cmds |-> CenterHeadCmds,
              did |-> "centered"]

\* no face, more than RETURN_CENTER_AFTER_MS_HEAD: ease to the centre, or,
\* within one degree of it, centre and stop
HeadReturn(h) ==
    LET diff_yaw == Deg(YAW_CENTER) - h.last_yaw
        diff_pitch == Deg(PITCH_CENTER) - h.last_pitch
        yaw == clamp(h.last_yaw + RoundDiv(diff_yaw * CENTER_STEP, 100),
                     Deg(YAW_MIN), Deg(YAW_MAX))
        pitch == clamp(h.last_pitch + RoundDiv(diff_pitch * CENTER_STEP, 100),
                       Deg(PITCH_MIN), Deg(PITCH_MAX))
    IN  IF Abs(diff_yaw) > 1000 \/ Abs(diff_pitch) > 1000
        THEN [st |-> [h EXCEPT !.returning_to_center_head = TRUE,
                               !.last_yaw = yaw, !.last_pitch = pitch],
              cmds |-> << <<SERVO_YAW, PyRound(yaw)>> >> \o PitchRollCmds(pitch),
              did |-> "centering"]
        ELSE [st |-> [h EXCEPT !.last_yaw = Deg(YAW_CENTER), !.last_pitch = Deg(PITCH_CENTER),
                               !.is_centered_head = TRUE,
                               !.returning_to_center_head = FALSE,
                               !.last_seen_dir_x = 0, !.last_seen_dir_y = 0],
              cmds |-> CenterHeadCmds,
              did |-> "centered"]

\* a sweep that turns round at the limits
HeadSearchTurning(h, dt) ==
    LET yaw == clamp(h.last_yaw + h.last_seen_dir_x * INVERT_YAW * SEARCH_RATE_DPS_X * dt,
                     Deg(YAW_MIN), Deg(YAW_MAX))
        pitch == clamp(h.last_pitch + h.last_seen_dir_y * INVERT_PITCH * SEARCH_RATE_DPS_Y * dt,
                       Deg(PITCH_MIN), Deg(PITCH_MAX))
    IN  [st |-> [h EXCEPT !.last_yaw = IF h.last_seen_dir_x # 0 THEN yaw ELSE @,
                          !.last_pitch = IF h.last_seen_dir_y # 0 THEN pitch ELSE @,
                          !.last_seen_dir_x = IF yaw \in {Deg(YAW_MIN), Deg(YAW_MAX)}
                                              THEN 0 - @ ELSE @,
                          !.last_seen_dir_y = IF pitch \in {Deg(PITCH_MIN), Deg(PITCH_MAX)}
                                              THEN 0 - @ ELSE @],
         cmds |-> (IF h.last_seen_dir_x # 0 THEN << <<SERVO_YAW, PyRound(yaw)>> >> ELSE << >>)
                  \o (IF h.last_seen_dir_y # 0 THEN PitchRollCmds(pitch) ELSE << >>),
         did |-> "searching"]

\* no face, between LOST_AFTER_MS and RETURN_CENTER_AFTER_MS_HEAD: sweep
\* towards the side the face was last seen on
HeadSearch(h, dt) ==
    LET yaw == clamp(h.last_yaw + h.last_seen_dir_x * INVERT_YAW * SEARCH_RATE_DPS_X * dt,
                     Deg(YAW_MIN), Deg(YAW_MAX))
        pitch == clamp(h.last_pitch + h.last_seen_dir_y * INVERT_PITCH * SEARCH_RATE_DPS_Y * dt,
                       Deg(PITCH_MIN), Deg(PITCH_MAX))
    IN  [st |-> [h EXCEPT !.last_yaw = IF h.last_seen_dir_x # 0 THEN yaw ELSE @,
                          !.last_pitch = IF h.last_seen_dir_y # 0 THEN pitch ELSE @],
         cmds |-> (IF h.last_seen_dir_x # 0 THEN << <<SERVO_YAW, PyRound(yaw)>> >> ELSE << >>)
                  \o (IF h.last_seen_dir_y # 0 THEN PitchRollCmds(pitch) ELSE << >>),
         did |-> "searching"]

ReturnDueNever(time_without_head) == FALSE

ReturnDueAtOrAfter(time_without_head) == time_without_head >= RETURN_CENTER_AFTER_MS_HEAD

\* time_without_head > RETURN_CENTER_AFTER_MS_HEAD
ReturnDue(time_without_head) == time_without_head > RETURN_CENTER_AFTER_MS_HEAD

\* time_without_head >= LOST_AFTER_MS
LostAtOrAfter(time_without_head) == time_without_head >= LOST_AFTER_MS

\* time_without_head > LOST_AFTER_MS
Lost(time_without_head) == time_without_head > LOST_AFTER_MS

\* the same logic without the is_centered_head guards
HeadNoFaceUnguarded(h, dt) ==
    LET time_without_head == 0 - h.last_seen_ms_head
    IN  IF ReturnDue(time_without_head)
        THEN HeadReturn(h)
        ELSE IF /\ Lost(time_without_head)
                /\ (h.last_seen_dir_x # 0 \/ h.last_seen_dir_y # 0)
        THEN HeadSearch(h, dt)
        ELSE [st |-> h, cmds |-> << >>, did |-> "none"]

\* the "sin rostro" logic of the head
HeadNoFace(h, dt) ==
    LET time_without_head == 0 - h.last_seen_ms_head
    IN  IF ReturnDue(time_without_head) /\ ~h.is_centered_head
        THEN HeadReturn(h)
        ELSE IF /\ Lost(time_without_head)
                /\ (h.last_seen_dir_x # 0 \/ h.last_seen_dir_y # 0)
                /\ ~h.is_centered_head
        THEN HeadSearch(h, dt)
        ELSE [st |-> h, cmds |-> << >>, did |-> "none"]

\* ------------------------------------------------------------------------
\* 3) PARPADOS
\* ------------------------------------------------------------------------
\* ranges (min, max) in milliseconds
DUR_MS_CIERRE_SUP == <<45, 70>>
DUR_MS_APERT_SUP == <<90, 130>>
DUR_MS_CIERRE_INF == <<55, 85>>
DUR_MS_APERT_INF == <<110, 160>>
INTERVALO_PARPADEO_S == <<2000, 6000>>
PAUSA_ENTRE_DOBLE_S == <<90, 180>>
HOLD_CERRADO_S == <<20, 60>>

\* closing scales, in hundredths
SUPERIOR_ESCALA_CIERRE == 100
INFERIOR_ESCALA_CIERRE == 100

\* every phase duration is below this many milliseconds
PhaseHorizon == DUR_MS_APERT_INF[2] + 1

sup_open == Deg(ANGLE_MIN_PARPADO_ARRIBA)

inf_open == Deg(ANGLE_MIN_PARPADO_ABAJO)

sup_close ==
    sup_open + SUPERIOR_ESCALA_CIERRE * (ANGLE_MAX_PARPADO_ARRIBA - ANGLE_MIN_PARPADO_ARRIBA) * 10

inf_close ==
    inf_open + INFERIOR_ESCALA_CIERRE * (ANGLE_MAX_PARPADO_ABAJO - ANGLE_MIN_PARPADO_ABAJO) * 10

CenterEyelidsCmds == << <<PIN_PARPADO_ARRIBA, sup_open>>, <<PIN_PARPADO_ABAJO, inf_open>> >>

\* clamp((now - phase_t0) / max(1e-3, dur), 0.0, 1.0) in 1/1000; it is 1000
\* exactly when the elapsed time has reached the duration
Progress(elapsed, dur) == clamp((elapsed * 1000) \div Max(1, dur), 0, 1000)

\* the random draws of one call: R gives, for each draw, the values the
\* model lets it take (double, close_sup, open_sup, close_inf, open_inf,
\* hold, pause, interval)
schedule_up_to_three(b, double) ==
    [b EXCEPT !.blink_queue = IF double THEN 3 ELSE 1, !.next_blink_time = 0]

schedule_next_blink(b, double) ==
    [b EXCEPT !.blink_queue = IF double THEN 2 ELSE 1, !.next_blink_time = 0]

\* a blink that starts with the lids taken as already closed
start_blink_held(b, cs, os, ci, oi, hd) ==
    [b EXCEPT !.blink_phase = "hold", !.phase_t0 = 0,
              !.dur_close_sup = cs, !.dur_open_sup = os,
              !.dur_close_inf = ci, !.dur_open_inf = oi, !.hold_dur = hd]

\* a blink whose start rolls for a double blink again, and gets one
start_blink_rolling(b, cs, os, ci, oi, hd) ==
    [b EXCEPT !.blink_phase = "closing", !.phase_t0 = 0, !.blink_queue = 2,
              !.dur_close_sup = cs, !.dur_open_sup = os,
              !.dur_close_inf = ci, !.dur_open_inf = oi, !.hold_dur = hd]

start_blink(b, cs, os, ci, oi, hd) ==
    [b EXCEPT !.blink_phase = "closing", !.phase_t0 = 0,
              !.dur_close_sup = cs, !.dur_open_sup = os,
              !.dur_close_inf = ci, !.dur_open_inf = oi, !.hold_dur = hd]

\* update_blink(now) with now = 0: the set of outcomes over the draws R
update_blink(b, R) ==
    LET elapsed == 0 - b.phase_t0
    IN
    CASE b.blink_phase = "idle" ->
           IF 0 >= b.next_blink_time
           THEN LET scheduled == IF b.blink_queue = 0
                                 THEN {schedule_next_blink(b, d) : d \in R.double}
                                 ELSE {b}
                IN  UNION {
                      IF q.blink_queue > 0
                      THEN {[st |-> start_blink(q, cs, os, ci, oi, hd), cmds |-> << >>,
                             did |-> IF b.blink_queue = 0 THEN "scheduled" ELSE "restarted"] :
                              cs \in R.close_sup, os \in R.open_sup, ci \in R.close_inf,
                              oi \in R.open_inf, hd \in R.hold}
                      ELSE {[st |-> q, cmds |-> << >>, did |-> "waiting"]}
                      : q \in scheduled}
           ELSE {[st |-> b, cmds |-> << >>, did |-> "waiting"]}
      [] b.blink_phase = "closing" ->
           LET k_sup == Progress(elapsed, b.dur_close_sup)
               k_inf == Progress(elapsed, b.dur_close_inf)
               ang_sup == sup_open + ((sup_close - sup_open) * ease_in_out(k_sup)) \div 1000
               ang_inf == inf_open + ((inf_close - inf_open) * ease_in_out(k_inf)) \div 1000
               cmds == << <<PIN_PARPADO_ARRIBA, ang_sup>>, <<PIN_PARPADO_ABAJO, ang_inf>> >>
           IN  IF k_sup >= 1000 /\ k_inf >= 1000
               THEN {[st |-> [b EXCEPT !.blink_phase = "hold", !.phase_t0 = 0],
                      cmds |-> cmds, did |-> "closed"]}
               ELSE {[st |-> b, cmds |-> cmds, did |-> "closing"]}
      [] b.blink_phase = "hold" ->
           IF elapsed >= b.hold_dur
           THEN {[st |-> [b EXCEPT !.blink_phase = "opening", !.phase_t0 = 0],
                  cmds |-> << >>, did |-> "held"]}
           ELSE {[st |-> b, cmds |-> << >>, did |-> "holding"]}
      [] b.blink_phase = "opening" ->
           LET k_sup == Progress(elapsed, b.dur_open_sup)
               k_inf == Progress(elapsed, b.dur_open_inf)
               ang_sup == sup_close + ((sup_open - sup_close) * ease_in_out(k_sup)) \div 1000
               ang_inf == inf_close + ((inf_open - inf_close) * ease_in_out(k_inf)) \div 1000
               cmds == << <<PIN_PARPADO_ARRIBA, ang_sup>>, <<PIN_PARPADO_ABAJO, ang_inf>> >>
           IN  IF k_sup >= 1000 /\ k_inf >= 1000
               THEN IF b.blink_queue - 1 > 0
                    THEN {[st |-> [b EXCEPT !.blink_queue = @ - 1, !.next_blink_time = p,
                                            !.blink_phase = "idle"],
                           cmds |-> cmds, did |-> "opened"] : p \in R.pause}
                    ELSE {[st |-> [b EXCEPT !.blink_queue = @ - 1, !.next_blink_time = i,
                                            !.blink_phase = "idle"],
                           cmds |-> cmds, did |-> "opened"] : i \in R.interval}
               ELSE {[st |-> b, cmds |-> cmds, did |-> "opening"]}

\* the clock has advanced by adv since the previous iteration
AdvanceBlink(b, adv) ==
    [b EXCEPT !.phase_t0 = Shift(@, adv, -PhaseHorizon),
              !.next_blink_time = Shift(@, adv, 0)]

\* ------------------------------------------------------------------------
\* The loop and its exits
\* ------------------------------------------------------------------------
\* kit.servo[pin].angle = angle for every command of cmds, in order
Command(sv, cmds) ==
    [p \in Pins |->
        LET at == {i \in 1..Len(cmds) : cmds[i][1] = p}
        IN  IF at = {} THEN sv[p]
            ELSE cmds[CHOOSE i \in at : \A j \in at : j <= i][2]]

PinsOf(cmds) == [i \in 1..Len(cmds) |-> cmds[i][1]]

\* center_all() takes at least the two sleeps of center_eyes / center_head
StartupMs == 400

\* time.sleep(0.2) at the end of center_eyes() and of center_head()
CENTER_SLEEP_MS == 200

\* the milliseconds an iteration sleeps: center_eyes() is called when the
\* eyes end their return, center_head() when the head ends its return
SleptIn(eyes_did, head_did) ==
    (IF eyes_did = "centered" THEN CENTER_SLEEP_MS ELSE 0)
    + (IF head_did = "centered" THEN CENTER_SLEEP_MS ELSE 0)

\* the pitch cleanup_and_exit commands after center_all()
EXIT_PITCH == 135

CenterAllCmds == CenterEyesCmds \o CenterHeadCmds \o CenterEyelidsCmds

CleanupCmds == CenterAllCmds \o << <<SERVO_PITCH, Deg(EXIT_PITCH)>> >>

InitEyes ==
    [last_h_izq |-> Deg(H_CENTER), last_v_izq |-> Deg(V_CENTER_IZQ),
     last_h_der |-> Deg(H_CENTER), last_v_der |-> Deg(V_CENTER_DER),
     last_err_h_e |-> 0, sum_err_h_e |-> 0, last_err_v_e |-> 0, sum_err_v_e |-> 0,
     err_x_f |-> 0, err_y_f |-> 0,
     last_seen_ms_eyes |-> -StartupMs, is_centered_eyes |-> FALSE]

InitHead ==
    [last_yaw |-> Deg(YAW_CENTER), last_pitch |-> Deg(PITCH_CENTER),
     last_err_yaw |-> 0, sum_err_yaw |-> 0, last_err_pitch |-> 0, sum_err_pitch |-> 0,
     last_seen_ms_head |-> -StartupMs, last_seen_dir_x |-> 0, last_seen_dir_y |-> 0,
     is_centered_head |-> FALSE, returning_to_center_head |-> FALSE]

InitBlink(interval) ==
    [blink_phase |-> "idle", phase_t0 |-> -PhaseHorizon,
     next_blink_time |-> Max(interval - StartupMs, 0), blink_queue |-> 0,
     dur_close_sup |-> 0, dur_open_sup |-> 0, dur_close_inf |-> 0, dur_open_inf |-> 0,
     hold_dur |-> 0]

NoTick ==
    [have_face |-> FALSE, face_cx |-> cx_frame, face_cy |-> cy_frame, dt |-> 1,
     eyes_did |-> "none", head_did |-> "none", blink_did |-> "waiting",
     eyes_pins |-> << >>, head_pins |-> << >>, blink_pins |-> << >>, slept |-> 0]

NoRun == [held |-> FALSE]

\* the memory of the process after sys.exit
Gone == [exited |-> TRUE]

\* no InMoovFaceTracker has been constructed
NoTracker == [constructed |-> FALSE]

\* test_seguimiento_cnOJOS.py is not the script that runs
NoCn == [pc |-> "off"]

\* no ServoService has been constructed
NoService == [constructed |-> FALSE]

\* no axis is followed on its own
NoAxis == [followed |-> FALSE]

\* the state when the while loop is entered: servos centred by center_all()
InitWith(R) ==
    /\ eyes = InitEyes
    /\ head = InitHead
    /\ blink \in {InitBlink(i) : i \in R.interval}
    /\ servo = Command([p \in Pins |-> 0], CenterAllCmds)
    /\ writes = << >>
    /\ pc = "loop"
    /\ tick = NoTick
    /\ cleanups = 0
    /\ frames = 0

\* the iteration of a script that would run update_blink only with a face
IterationBlinkWithFace(have_face, face_cx, face_cy, adv, R) ==
    /\ pc = "loop"
    /\ LET dt == Max(1, adv)
           e0 == [eyes EXCEPT !.last_seen_ms_eyes =
                                 Shift(@, adv, -(RETURN_CENTER_AFTER_MS_EYES + 1))]
           h0 == [head EXCEPT !.last_seen_ms_head =
                                 Shift(@, adv, -(RETURN_CENTER_AFTER_MS_HEAD + 1))]
       IN  \E er \in {IF have_face THEN EyesTrack(e0, face_cx, face_cy, dt)
                                   ELSE EyesNoFace(e0)},
              hr \in {IF have_face THEN HeadTrack(h0, face_cx, face_cy, dt)
                                   ELSE HeadNoFace(h0, dt)},
              b0 \in {AdvanceBlink(blink, adv)} :
              \E br \in IF have_face THEN update_blink(b0, R)
                        ELSE {[st |-> b0, cmds |-> << >>, did |-> "waiting"]} :
              \E cmds \in {er.cmds \o hr.cmds \o br.cmds} :
                 /\ eyes' = er.st
                 /\ head' = hr.st
                 /\ blink' = br.st
                 /\ servo' = Command(servo, cmds)
                 /\ writes' = PinsOf(cmds)
                 /\ tick' = [have_face |-> have_face, face_cx |-> face_cx,
                             face_cy |-> face_cy, dt |-> dt, eyes_did |-> er.did,
                             head_did |-> hr.did, blink_did |-> br.did,
                             eyes_pins |-> PinsOf(er.cmds),
                             head_pins |-> PinsOf(hr.cmds),
                             blink_pins |-> PinsOf(br.cmds),
                             slept |-> SleptIn(er.did, hr.did)]
    /\ UNCHANGED <<pc, cleanups, inmoov, cn, svc, axis>>

\* one iteration of the while loop that obtained a frame; adv is the time
\* since the previous iteration, (face_cx, face_cy) the centre of the
\* highest-score detection when have_face
Iteration(have_face, face_cx, face_cy, adv, R) ==
    /\ pc = "loop"
    /\ LET dt == Max(1, adv)
           e0 == [eyes EXCEPT !.last_seen_ms_eyes =
                                 Shift(@, adv, -(RETURN_CENTER_AFTER_MS_EYES + 1))]
           h0 == [head EXCEPT !.last_seen_ms_head =
                                 Shift(@, adv, -(RETURN_CENTER_AFTER_MS_HEAD + 1))]
       IN  \E er \in {IF have_face THEN EyesTrack(e0, face_cx, face_cy, dt)
                                   ELSE EyesNoFace(e0)},
              hr \in {IF have_face THEN HeadTrack(h0, face_cx, face_cy, dt)
                                   ELSE HeadNoFace(h0, dt)},
              b0 \in {AdvanceBlink(blink, adv)} :
              \E br \in update_blink(b0, R) :
              \E cmds \in {er.cmds \o hr.cmds \o br.cmds} :
                 /\ eyes' = er.st
                 /\ head' = hr.st
                 /\ blink' = br.st
                 /\ servo' = Command(servo, cmds)
                 /\ writes' = PinsOf(cmds)
                 /\ tick' = [have_face |-> have_face, face_cx |-> face_cx,
                             face_cy |-> face_cy, dt |-> dt, eyes_did |-> er.did,
                             head_did |-> hr.did, blink_did |-> br.did,
                             eyes_pins |-> PinsOf(er.cmds),
                             head_pins |-> PinsOf(hr.cmds),
                             blink_pins |-> PinsOf(br.cmds),
                             slept |-> SleptIn(er.did, hr.did)]
    /\ UNCHANGED <<pc, cleanups, inmoov, cn, svc, axis>>

\* cleanup_and_exit(cap) run n times in a row: center_all(), the pitch to
\* EXIT_PITCH, the camera released, sys.exit(0)
cleanup_and_exit(n) ==
    /\ pc = "loop"
    /\ pc' = "exited"
    /\ servo' = Command(servo, CleanupCmds)
    /\ writes' = IF n = 1 THEN PinsOf(CleanupCmds) ELSE PinsOf(CleanupCmds \o CleanupCmds)
    /\ cleanups' = cleanups + n
    /\ eyes' = Gone
    /\ head' = Gone
    /\ blink' = Gone
    /\ tick' = Gone
    /\ UNCHANGED <<run, inmoov, cn, svc, axis>>

\* an exit that would skip center_all
ExitAsIs(n) ==
    /\ pc = "loop"
    /\ pc' = "exited"
    /\ servo' = Command(servo, << <<SERVO_PITCH, Deg(EXIT_PITCH)>> >>)
    /\ writes' = << SERVO_PITCH >>
    /\ cleanups' = cleanups + n
    /\ eyes' = Gone
    /\ head' = Gone
    /\ blink' = Gone
    /\ tick' = Gone
    /\ UNCHANGED <<frames, run, inmoov, cn, svc, axis>>

\* cleanup_and_exit(cap), n times in a row, the last sys.exit(0) ending the
\* process
Exit(n) ==
    /\ cleanup_and_exit(n)
    /\ UNCHANGED frames

\* cap.read() fails: break, then the finally clause
ReadFail == Exit(1)

\* Ctrl+C: signal_handler runs cleanup_and_exit, whose sys.exit(0) raises
\* SystemExit in the loop; the finally clause runs cleanup_and_exit again
Sigint == Exit(2)

\* ------------------------------------------------------------------------
\* Spec: every input, a bounded number of iterations
\* ------------------------------------------------------------------------
MaxFrames == 3

\* face centres (face_cx, face_cy) in the 640 x 480 frame: two on the edges of
\* the deadbands (20 and 40 px across, 15 and 22 px down), two far off
Faces == {<<340, 255>>, <<360, 262>>, <<620, 40>>, <<40, 440>>}

\* milliseconds between two iterations; 0 is floored to dt = 1 ms
Advs == {0, 300, 7700, 8100}

\* the random draws of the blink here: a single blink with the shortest
\* durations of every range (SpecBlink draws the others)
Draws ==
    [double |-> {FALSE}, close_sup |-> {DUR_MS_CIERRE_SUP[1]},
     open_sup |-> {DUR_MS_APERT_SUP[1]}, close_inf |-> {DUR_MS_CIERRE_INF[1]},
     open_inf |-> {DUR_MS_APERT_INF[1]}, hold |-> {HOLD_CERRADO_S[1]},
     pause |-> {PAUSA_ENTRE_DOBLE_S[1]}, interval |-> {INTERVALO_PARPADEO_S[1]}]

Init == InitWith(Draws) /\ run = NoRun /\ inmoov = NoTracker /\ cn = NoCn /\ svc = NoService /\ axis = NoAxis

FaceIteration ==
    /\ frames < MaxFrames
    /\ \E f \in Faces, adv \in Advs : Iteration(TRUE, f[1], f[2], adv, Draws)
    /\ frames' = frames + 1
    /\ UNCHANGED run

NoFaceIteration ==
    /\ frames < MaxFrames
    /\ \E adv \in Advs : Iteration(FALSE, cx_frame, cy_frame, adv, Draws)
    /\ frames' = frames + 1
    /\ UNCHANGED run

\* fd.process(rgb) raises on the frame just read: nothing in the loop catches
\* it (the try has only "except KeyboardInterrupt"), so it leaves the while
\* loop and the finally clause runs cleanup_and_exit, whose sys.exit(0) ends
\* the process
DetectorRaises ==
    /\ frames < MaxFrames
    /\ cleanup_and_exit(1)
    /\ frames' = frames + 1

Next == FaceIteration \/ NoFaceIteration \/ ReadFail \/ Sigint \/ DetectorRaises

Spec == Init /\ [][Next]_vars

\* ------------------------------------------------------------------------
\* SpecRun: a face held at one place for any number of iterations, then lost
\* for good; iterations keep coming
\* ------------------------------------------------------------------------
RunFaces == {<<360, 262>>, <<620, 40>>, <<40, 440>>}

RunAdvs == {300, 2000}

InitRun ==
    /\ InitWith(Draws)
    /\ inmoov = NoTracker
    /\ cn = NoCn /\ svc = NoService /\ axis = NoAxis
    /\ run \in {[held |-> TRUE, face |-> f, adv |-> a, seen |-> FALSE, lost |-> FALSE] :
                   f \in RunFaces, a \in RunAdvs}

HeldFaceIteration ==
    /\ run.held /\ ~run.lost
    /\ Iteration(TRUE, run.face[1], run.face[2], run.adv, Draws)
    /\ run' = [run EXCEPT !.seen = TRUE]
    /\ UNCHANGED frames

LossIteration ==
    /\ run.held
    /\ Iteration(FALSE, cx_frame, cy_frame, run.adv, Draws)
    /\ run' = [run EXCEPT !.lost = TRUE]
    /\ UNCHANGED frames

NextRun == HeldFaceIteration \/ LossIteration

SpecRun == InitRun /\ [][NextRun]_vars /\ WF_vars(LossIteration)

\* ------------------------------------------------------------------------
\* SpecBlink: a face stays at the centre of the frame, so that eyes and head
\* rest, while the iterations come at uneven intervals and every blink draws
\* its durations anew
\* ------------------------------------------------------------------------
BlinkAdvs == {20, 50, 400}

BlinkDraws ==
    [double |-> {FALSE, TRUE}, close_sup |-> {DUR_MS_CIERRE_SUP[1], DUR_MS_CIERRE_SUP[2]},
     open_sup |-> {DUR_MS_APERT_SUP[1], DUR_MS_APERT_SUP[2]},
     close_inf |-> {DUR_MS_CIERRE_INF[1], DUR_MS_CIERRE_INF[2]},
     open_inf |-> {DUR_MS_APERT_INF[1], DUR_MS_APERT_INF[2]},
     hold |-> {HOLD_CERRADO_S[1], HOLD_CERRADO_S[2]},
     pause |-> {PAUSA_ENTRE_DOBLE_S[1], PAUSA_ENTRE_DOBLE_S[2]},
     interval |-> {INTERVALO_PARPADEO_S[1]}]

InitBlinking == InitWith(BlinkDraws) /\ run = NoRun /\ inmoov = NoTracker /\ cn = NoCn /\ svc = NoService /\ axis = NoAxis

BlinkIteration ==
    /\ \E adv \in BlinkAdvs : Iteration(TRUE, cx_frame, cy_frame, adv, BlinkDraws)
    /\ UNCHANGED <<frames, run>>

\* what an iteration does to the animator: update_blink(now) a little later
BlinkUpdate ==
    \E adv \in BlinkAdvs :
       \E b0 \in {AdvanceBlink(blink, adv)} :
          \E br \in update_blink(b0, BlinkDraws) : blink' = br.st

\* the iterations keep coming: update_blink keeps being called
SpecBlink == InitBlinking /\ [][BlinkIteration]_vars /\ WF_blink(BlinkUpdate)

\* ------------------------------------------------------------------------
\* inmoov_face_tracker.py: InMoovFaceTracker, pixel errors and whole degrees
\* in, angles in 1/1000 degree
\* ------------------------------------------------------------------------
SERVO_EYE_LEFT_H == 6
SERVO_EYE_RIGHT_H == 7
SERVO_EYE_LEFT_V == 8
SERVO_EYE_RIGHT_V == 9
SERVO_PITCH_INMOOV == 2

CENTER_PITCH == 90
CENTER_EYE_LEFT_H == 90
CENTER_EYE_RIGHT_H == 90
CENTER_EYE_LEFT_V == 90
CENTER_EYE_RIGHT_V == 90

EYE_H_MIN == 70
EYE_H_MAX == 110
EYE_V_MIN == 70
EYE_V_MAX == 110
PITCH_MIN_INMOOV == 60
PITCH_MAX_INMOOV == 120

\* gains and smoothing in 1/1000
KP_EYES == 150
KP_HEAD == 80
HEAD_THRESHOLD == 700
SMOOTH_ALPHA == 300

DEADBAND_X == 40
DEADBAND_Y == 30

TrackerPins ==
    {SERVO_EYE_LEFT_H, SERVO_EYE_RIGHT_H, SERVO_EYE_LEFT_V, SERVO_EYE_RIGHT_V,
     SERVO_PITCH_INMOOV}

\* int(angle), then max(0, min(180, angle)), in whole degrees
set_servo_safe(angle) == clamp(angle \div 1000, 0, 180)

\* alpha * new + (1 - alpha) * current
SmoothTowards(new, current) ==
    RoundDiv(SMOOTH_ALPHA * new + (1000 - SMOOTH_ALPHA) * current, 1000)

calculate_eye_position(t, error_x, error_y) ==
    LET ex == IF Abs(error_x) < DEADBAND_X THEN 0 ELSE error_x
        ey == IF Abs(error_y) < DEADBAND_Y THEN 0 ELSE error_y
        delta_h == -ex * KP_EYES
        delta_v == -ey * KP_EYES
        H(current) == SmoothTowards(clamp(current + delta_h, Deg(EYE_H_MIN), Deg(EYE_H_MAX)),
                                    current)
        V(current) == SmoothTowards(clamp(current + delta_v, Deg(EYE_V_MIN), Deg(EYE_V_MAX)),
                                    current)
    IN  [eye_left_h |-> H(t.current_eye_left_h), eye_right_h |-> H(t.current_eye_right_h),
         eye_left_v |-> V(t.current_eye_left_v), eye_right_v |-> V(t.current_eye_right_v),
         error_x |-> ex, error_y |-> ey]

calculate_head_compensation(t) ==
    LET eye_v_range == Deg(EYE_V_MAX - EYE_V_MIN)
        eye_v_center == Deg(EYE_V_MAX + EYE_V_MIN) \div 2
        eye_avg_v == (t.current_eye_left_v + t.current_eye_right_v) \div 2
        eye_offset_v == (Abs(eye_avg_v - eye_v_center) * 1000) \div (eye_v_range \div 2)
        delta_pitch == RoundDiv(Abs(eye_avg_v - eye_v_center) * KP_HEAD, 1000)
    IN  IF eye_offset_v > HEAD_THRESHOLD
        THEN SmoothTowards(clamp(t.current_pitch + delta_pitch,
                                 Deg(PITCH_MIN_INMOOV), Deg(PITCH_MAX_INMOOV)),
                           t.current_pitch)
        ELSE t.current_pitch

\* the tracker after __init__ and the move_to_center() of run()
InitTracker ==
    [constructed |-> TRUE,
     current_eye_left_h |-> Deg(CENTER_EYE_LEFT_H),
     current_eye_right_h |-> Deg(CENTER_EYE_RIGHT_H),
     current_eye_left_v |-> Deg(CENTER_EYE_LEFT_V),
     current_eye_right_v |-> Deg(CENTER_EYE_RIGHT_V),
     current_pitch |-> Deg(CENTER_PITCH),
     kit |-> [p \in TrackerPins |->
                IF p = SERVO_PITCH_INMOOV THEN CENTER_PITCH ELSE CENTER_EYE_LEFT_H],
     have_face |-> FALSE, error_x |-> 0, error_y |-> 0,
     eye_error_x |-> 0, eye_error_y |-> 0, detections |-> << >>]

\* one frame of run() with a detection whose centre is (error_x, error_y)
\* pixels from the centre of the frame: calculate_eye_position,
\* calculate_head_compensation on the angles of the previous frame,
\* update_servos; detections is results.detections when it holds more than
\* one detection, else << >>
TrackFrameOn(error_x, error_y, detections) ==
    /\ inmoov.constructed
    /\ \E e \in {calculate_eye_position(inmoov, error_x, error_y)},
          new_pitch \in {calculate_head_compensation(inmoov)} :
          inmoov' = [inmoov EXCEPT
                       !.current_eye_left_h = e.eye_left_h,
                       !.current_eye_right_h = e.eye_right_h,
                       !.current_eye_left_v = e.eye_left_v,
                       !.current_eye_right_v = e.eye_right_v,
                       !.current_pitch = new_pitch,
                       !.kit = [p \in TrackerPins |->
                                 set_servo_safe(
                                   CASE p = SERVO_EYE_LEFT_H -> e.eye_left_h
                                     [] p = SERVO_EYE_RIGHT_H -> e.eye_right_h
                                     [] p = SERVO_EYE_LEFT_V -> e.eye_left_v
                                     [] p = SERVO_EYE_RIGHT_V -> e.eye_right_v
                                     [] OTHER -> new_pitch)],
                       !.have_face = TRUE, !.error_x = error_x, !.error_y = error_y,
                       !.eye_error_x = e.error_x, !.eye_error_y = e.error_y,
                       !.detections = detections]

\* the frame has one detection
TrackFrame(error_x, error_y) == TrackFrameOn(error_x, error_y, << >>)

\* one frame of run() without a detection: nothing is commanded
EmptyFrame ==
    /\ inmoov.constructed
    /\ inmoov' = [inmoov EXCEPT !.have_face = FALSE]

\* pixel errors around the two deadbands, and far ones
ErrorsX == {-41, -40, 0, 39, 40, 41, 200}

ErrorsY == {-150, -31, -30, 0, 29, 30, 31}

InitInMoov == InitWith(Draws) /\ run = NoRun /\ inmoov = InitTracker /\ cn = NoCn /\ svc = NoService /\ axis = NoAxis

TrackerFaceFrame ==
    /\ frames < MaxFrames
    /\ \E error_x \in ErrorsX, error_y \in ErrorsY : TrackFrame(error_x, error_y)
    /\ frames' = frames + 1
    /\ UNCHANGED <<eyes, head, blink, servo, writes, pc, tick, cleanups, run, cn, svc, axis>>

TrackerEmptyFrame ==
    /\ frames < MaxFrames
    /\ EmptyFrame
    /\ frames' = frames + 1
    /\ UNCHANGED <<eyes, head, blink, servo, writes, pc, tick, cleanups, run, cn, svc, axis>>

\* self.center_x, self.center_y of the 640 x 480 frame
center_x == FRAME_W \div 2

center_y == FRAME_H \div 2

\* results.detections of a frame with two faces, in either order, the score
\* in hundredths and the centre of the box in pixels
DetectionLists ==
    LET near == [score |-> 90, face_x |-> 120, face_y |-> 240]
        far == [score |-> 60, face_x |-> 320, face_y |-> 390]
    IN  {<<near, far>>, <<far, near>>}

\* max(results.detections, key=lambda d: d.score[0]): the first detection of
\* the highest score
HighestScore(detections) ==
    detections[CHOOSE i \in 1..Len(detections) :
                  /\ \A j \in 1..Len(detections) : detections[j].score <= detections[i].score
                  /\ \A j \in 1..(i - 1) : detections[j].score < detections[i].score]

\* one frame of run() on several detections: detection = results.detections[0]
FacesFrame(detections) ==
    TrackFrameOn(center_x - detections[1].face_x, center_y - detections[1].face_y, detections)

TrackerFacesFrame ==
    /\ frames < MaxFrames
    /\ \E detections \in DetectionLists : FacesFrame(detections)
    /\ frames' = frames + 1
    /\ UNCHANGED <<eyes, head, blink, servo, writes, pc, tick, cleanups, run, cn, svc, axis>>

NextInMoov == TrackerFaceFrame \/ TrackerEmptyFrame \/ TrackerFacesFrame

SpecInMoov == InitInMoov /\ [][NextInMoov]_vars

\* ------------------------------------------------------------------------
\* SpecInMoovRun: the face stays at one place for any number of frames, then
\* at another one; frames without a detection come in between
\* ------------------------------------------------------------------------
\* (error_x, error_y) in pixels: far below, far above and to the side, just
\* outside the deadbands
RunErrors == {<<0, -150>>, <<200, 150>>, <<0, 31>>, <<-41, 0>>}

InitInMoovRun ==
    /\ InitWith(Draws)
    /\ inmoov = InitTracker
    /\ cn = NoCn /\ svc = NoService /\ axis = NoAxis
    /\ run \in {[held |-> FALSE, errs |-> e, back |-> b, turned |-> FALSE] :
                   e \in RunErrors, b \in RunErrors}

HeldErrorFrame ==
    /\ ~run.turned
    /\ TrackFrame(run.errs[1], run.errs[2])
    /\ UNCHANGED <<eyes, head, blink, servo, writes, pc, tick, cleanups, frames, run, cn, svc, axis>>

TurnedErrorFrame ==
    /\ TrackFrame(run.back[1], run.back[2])
    /\ run' = [run EXCEPT !.turned = TRUE]
    /\ UNCHANGED <<eyes, head, blink, servo, writes, pc, tick, cleanups, frames, cn, svc, axis>>

LostFrame ==
    /\ EmptyFrame
    /\ UNCHANGED <<eyes, head, blink, servo, writes, pc, tick, cleanups, frames, run, cn, svc, axis>>

NextInMoovRun == HeldErrorFrame \/ TurnedErrorFrame \/ LostFrame

SpecInMoovRun == InitInMoovRun /\ [][NextInMoovRun]_vars

\* ------------------------------------------------------------------------
\* test_seguimiento_cnOJOS.py: eyes first, neck once the eyes are past
\* NECK_THRESHOLD of their range.  Limits, centres, signs, neck gains and
\* times that have the names and values of TEST_SEGUIMIENTO_COMPLETO.py
\* (PITCH_*, ROLL_*, YAW_*, INVERT_*, KP_PITCH .. SMOOTH_ALPHA_YAW,
\* LOST_AFTER_MS) are the definitions above.
\* ------------------------------------------------------------------------
SERVO_EYE_LEFT_V_CN == 7
SERVO_EYE_LEFT_H_CN == 6
SERVO_EYE_RIGHT_H_CN == 9
SERVO_EYE_RIGHT_V_CN == 11

CnEyePins ==
    {SERVO_EYE_LEFT_H_CN, SERVO_EYE_RIGHT_H_CN, SERVO_EYE_LEFT_V_CN, SERVO_EYE_RIGHT_V_CN}

CnPins == CnEyePins \cup HeadPins

\* degrees
ANGLE_MIN_OJO_IZQUIERDO_VERTICAL == 70
ANGLE_MAX_OJO_IZQUIERDO_VERTICAL == 110
ANGLE_MIN_OJO_DERECHO_VERTICAL == 70
ANGLE_MAX_OJO_DERECHO_VERTICAL == 110
ANGLE_MIN_OJO_IZQUIERDO_HORIZONTAL == 15
ANGLE_MAX_OJO_IZQUIERDO_HORIZONTAL == 165
ANGLE_MIN_OJO_DERECHO_HORIZONTAL == 15
ANGLE_MAX_OJO_DERECHO_HORIZONTAL == 165

EYE_LEFT_H_CENTER ==
    (ANGLE_MIN_OJO_IZQUIERDO_HORIZONTAL + ANGLE_MAX_OJO_IZQUIERDO_HORIZONTAL) \div 2

EYE_RIGHT_H_CENTER ==
    (ANGLE_MIN_OJO_DERECHO_HORIZONTAL + ANGLE_MAX_OJO_DERECHO_HORIZONTAL) \div 2

EYE_LEFT_V_CENTER ==
    (ANGLE_MIN_OJO_IZQUIERDO_VERTICAL + ANGLE_MAX_OJO_IZQUIERDO_VERTICAL) \div 2

EYE_RIGHT_V_CENTER ==
    (ANGLE_MIN_OJO_DERECHO_VERTICAL + ANGLE_MAX_OJO_DERECHO_VERTICAL) \div 2

\* EYE_H_MIN, EYE_H_MAX, EYE_V_MIN, EYE_V_MAX of this script
EYE_H_MIN_CN == Min(ANGLE_MIN_OJO_IZQUIERDO_HORIZONTAL, ANGLE_MIN_OJO_DERECHO_HORIZONTAL)

EYE_H_MAX_CN == Max(ANGLE_MAX_OJO_IZQUIERDO_HORIZONTAL, ANGLE_MAX_OJO_DERECHO_HORIZONTAL)

EYE_V_MIN_CN == Min(ANGLE_MIN_OJO_IZQUIERDO_VERTICAL, ANGLE_MIN_OJO_DERECHO_VERTICAL)

EYE_V_MAX_CN == Max(ANGLE_MAX_OJO_IZQUIERDO_VERTICAL, ANGLE_MAX_OJO_DERECHO_VERTICAL)

\* eye gains and smoothing in hundredths (KP_EYE = 0.15 is 15)
KP_EYE == 15
KI_EYE == 1
KD_EYE == 0
SMOOTH_ALPHA_EYE == 30

\* pixels
DEADBAND_EYE_X == 40
DEADBAND_EYE_Y == 30
DEADBAND_NECK_Y == 15
DEADBAND_NECK_X == 40

\* 1/1000 * second
I_CLAMP == 30000

\* hundredths
NECK_THRESHOLD == 70

\* degrees per second
SEARCH_RATE_DPS_EYE == 15
SEARCH_RATE_DPS_NECK_Y == 30
SEARCH_RATE_DPS_NECK_X == 25

\* milliseconds
RETURN_CENTER_AFTER_MS == 8000

\* the sleeps between the state initialisation and the loop (line 309)
CnStartupMs == 1000

CnCenterCmds ==
    << <<SERVO_EYE_LEFT_H_CN, Deg(EYE_LEFT_H_CENTER)>>,
       <<SERVO_EYE_RIGHT_H_CN, Deg(EYE_RIGHT_H_CENTER)>>,
       <<SERVO_EYE_LEFT_V_CN, Deg(EYE_LEFT_V_CENTER)>>,
       <<SERVO_EYE_RIGHT_V_CN, Deg(EYE_RIGHT_V_CENTER)>>,
       <<SERVO_YAW, Deg(YAW_CENTER)>>, <<SERVO_PITCH, Deg(PITCH_CENTER)>>,
       <<SERVO_ROLL_LEFT, Deg(ROLL_CENTER)>>, <<SERVO_ROLL_RIGHT, Deg(ROLL_CENTER)>> >>

\* cleanup_and_exit: neck first, then eyes
CnCleanupCmds == SubSeq(CnCenterCmds, 5, 8) \o SubSeq(CnCenterCmds, 1, 4)

\* the four eye commands: each angle clamped to the limits of its own servo
\* and rounded
CnEyeCmds(left_h, right_h, left_v, right_v) ==
    << <<SERVO_EYE_LEFT_H_CN,
         PyRound(clamp(left_h, Deg(ANGLE_MIN_OJO_IZQUIERDO_HORIZONTAL),
                       Deg(ANGLE_MAX_OJO_IZQUIERDO_HORIZONTAL)))>>,
       <<SERVO_EYE_RIGHT_H_CN,
         PyRound(clamp(right_h, Deg(ANGLE_MIN_OJO_DERECHO_HORIZONTAL),
                       Deg(ANGLE_MAX_OJO_DERECHO_HORIZONTAL)))>>,
       <<SERVO_EYE_LEFT_V_CN,
         PyRound(clamp(left_v, Deg(ANGLE_MIN_OJO_IZQUIERDO_VERTICAL),
                       Deg(ANGLE_MAX_OJO_IZQUIERDO_VERTICAL)))>>,
       <<SERVO_EYE_RIGHT_V_CN,
         PyRound(clamp(right_v, Deg(ANGLE_MIN_OJO_DERECHO_VERTICAL),
                       Deg(ANGLE_MAX_OJO_DERECHO_VERTICAL)))>> >>

\* the eye axis with the sign of the PID output turned round
CnEyeAxisInverted(last, last_err, sum, err_px, half, dt, lo, hi) ==
    LET err == Normalise(err_px, half)
        sum2 == Integrate(sum, err, dt, I_CLAMP)
        der == Derivative(err, last_err, dt)
        pid_out == KP_EYE * err + KI_EYE * sum2 + KD_EYE * der
        desired == clamp(last + RoundDiv(pid_out * half, 100), Deg(lo), Deg(hi))
    IN  [smooth |-> Smooth(SMOOTH_ALPHA_EYE, desired, last), err |-> err, sum |-> sum2]

\* PASO 1 on one axis: the PID on the normalised error, its output scaled
\* by half the frame; the result is the new smoothed angle
CnEyeAxis(last, last_err, sum, err_px, half, dt, lo, hi) ==
    LET err == Normalise(err_px, half)
        sum2 == Integrate(sum, err, dt, I_CLAMP)
        der == Derivative(err, last_err, dt)
        pid_out == KP_EYE * err + KI_EYE * sum2 + KD_EYE * der
        desired == clamp(last - RoundDiv(pid_out * half, 100), Deg(lo), Deg(hi))
    IN  [smooth |-> Smooth(SMOOTH_ALPHA_EYE, desired, last), err |-> err, sum |-> sum2]

CnPastThresholdAlways(smooth, lo, hi) == TRUE

\* abs(smooth - center) / (range / 2.0) > NECK_THRESHOLD
CnPastThreshold(smooth, lo, hi) ==
    Abs(2 * smooth - Deg(hi + lo)) * 100 > NECK_THRESHOLD * Deg(hi - lo)

\* PASO 3 on one neck axis
CnNeckAxis(last, last_err, sum, err_px, half, dt, kp, ki, kd, alpha, lo, hi) ==
    LET err == Normalise(err_px, half)
        sum2 == Integrate(sum, err, dt, I_CLAMP)
        der == Derivative(err, last_err, dt)
        desired == clamp(last + PidOut(kp, ki, kd, err, sum2, der), Deg(lo), Deg(hi))
    IN  [smooth |-> Smooth(alpha, desired, last), err |-> err, sum |-> sum2]

InitCn ==
    [pc |-> "loop",
     last_eye_left_h |-> Deg(EYE_LEFT_H_CENTER), last_eye_right_h |-> Deg(EYE_RIGHT_H_CENTER),
     last_eye_left_v |-> Deg(EYE_LEFT_V_CENTER), last_eye_right_v |-> Deg(EYE_RIGHT_V_CENTER),
     last_err_eye_x |-> 0, sum_err_eye_x |-> 0, last_err_eye_y |-> 0, sum_err_eye_y |-> 0,
     last_yaw |-> Deg(YAW_CENTER), last_pitch |-> Deg(PITCH_CENTER),
     last_err_yaw |-> 0, sum_err_yaw |-> 0, last_err_pitch |-> 0, sum_err_pitch |-> 0,
     last_seen_ms |-> -CnStartupMs, last_seen_dir_x |-> 0, last_seen_dir_y |-> 0,
     is_centered |-> FALSE, returning_to_center |-> FALSE,
     kit |-> [p \in CnPins |-> 0],
     writes |-> << >>, cleanups |-> 0,
     have_face |-> FALSE, face_cx |-> cx_frame, face_cy |-> cy_frame, dt |-> 1,
     did |-> "none", compensate_yaw |-> FALSE, compensate_pitch |-> FALSE]

\* kit.servo[pin].angle = angle for every command of cmds, in order
CnCommand(kit, cmds) ==
    [p \in CnPins |->
        LET at == {i \in 1..Len(cmds) : cmds[i][1] = p}
        IN  IF at = {} THEN kit[p]
            ELSE cmds[CHOOSE i \in at : \A j \in at : j <= i][2]]

\* ROSTRO DETECTADO: PASO 1 eyes, PASO 2 the two flags, PASO 3 neck
CnTrack(c, face_cx, face_cy, dt) ==
    LET h == CnEyeAxis(c.last_eye_left_h, c.last_err_eye_x, c.sum_err_eye_x,
                       Deadband(cx_frame - face_cx, DEADBAND_EYE_X), FRAME_W \div 2, dt,
                       EYE_H_MIN_CN, EYE_H_MAX_CN)
        v == CnEyeAxis(c.last_eye_left_v, c.last_err_eye_y, c.sum_err_eye_y,
                       Deadband(cy_frame - face_cy, DEADBAND_EYE_Y), FRAME_H \div 2, dt,
                       EYE_V_MIN_CN, EYE_V_MAX_CN)
        compensate_yaw == CnPastThreshold(h.smooth, EYE_H_MIN_CN, EYE_H_MAX_CN)
        compensate_pitch == CnPastThreshold(v.smooth, EYE_V_MIN_CN, EYE_V_MAX_CN)
        yaw == CnNeckAxis(c.last_yaw, c.last_err_yaw, c.sum_err_yaw,
                          Deadband((face_cx - cx_frame) * INVERT_YAW, DEADBAND_NECK_X),
                          FRAME_W \div 2, dt, KP_YAW, KI_YAW, KD_YAW, SMOOTH_ALPHA_YAW,
                          YAW_MIN, YAW_MAX)
        pitch == CnNeckAxis(c.last_pitch, c.last_err_pitch, c.sum_err_pitch,
                            Deadband((face_cy - cy_frame) * INVERT_PITCH, DEADBAND_NECK_Y),
                            FRAME_H \div 2, dt, KP_PITCH, KI_PITCH, KD_PITCH,
                            SMOOTH_ALPHA_PITCH, PITCH_MIN, PITCH_MAX)
        cmds == CnEyeCmds(h.smooth, h.smooth, v.smooth, v.smooth)
                \o (IF compensate_yaw THEN << <<SERVO_YAW, PyRound(yaw.smooth)>> >> ELSE << >>)
                \o (IF compensate_pitch THEN PitchRollCmds(pitch.smooth) ELSE << >>)
    IN  [c EXCEPT !.is_centered = FALSE, !.returning_to_center = FALSE,
                  !.sum_err_eye_x = h.sum, !.last_err_eye_x = h.err,
                  !.last_eye_left_h = h.smooth, !.last_eye_right_h = h.smooth,
                  !.sum_err_eye_y = v.sum, !.last_err_eye_y = v.err,
                  !.last_eye_left_v = v.smooth, !.last_eye_right_v = v.smooth,
                  !.sum_err_yaw = IF compensate_yaw THEN yaw.sum ELSE @,
                  !.last_err_yaw = IF compensate_yaw THEN yaw.err ELSE @,
                  !.last_yaw = IF compensate_yaw THEN yaw.smooth ELSE @,
                  !.sum_err_pitch = IF compensate_pitch THEN pitch.sum ELSE @,
                  !.last_err_pitch = IF compensate_pitch THEN pitch.err ELSE @,
                  !.last_pitch = IF compensate_pitch THEN pitch.smooth ELSE @,
                  !.last_seen_ms = 0,
                  !.last_seen_dir_x = IF face_cx < cx_frame THEN -1 ELSE 1,
                  !.last_seen_dir_y = IF face_cy < cy_frame THEN -1 ELSE 1,
                  !.kit = CnCommand(c.kit, cmds), !.writes = PinsOf(cmds),
                  !.have_face = TRUE, !.face_cx = face_cx, !.face_cy = face_cy, !.dt = dt,
                  !.did = "track", !.compensate_yaw = compensate_yaw,
                  !.compensate_pitch = compensate_pitch]

\* RETORNO A CENTRO: every axis 15 % of the way, or, all within one degree,
\* everything to the centres
CnReturn(c) ==
    LET diff_eye_left_h == Deg(EYE_LEFT_H_CENTER) - c.last_eye_left_h
        diff_eye_left_v == Deg(EYE_LEFT_V_CENTER) - c.last_eye_left_v
        diff_eye_right_h == Deg(EYE_RIGHT_H_CENTER) - c.last_eye_right_h
        diff_eye_right_v == Deg(EYE_RIGHT_V_CENTER) - c.last_eye_right_v
        diff_yaw == Deg(YAW_CENTER) - c.last_yaw
        diff_pitch == Deg(PITCH_CENTER) - c.last_pitch
        left_h == c.last_eye_left_h + RoundDiv(diff_eye_left_h * CENTER_STEP, 100)
        left_v == c.last_eye_left_v + RoundDiv(diff_eye_left_v * CENTER_STEP, 100)
        right_h == c.last_eye_right_h + RoundDiv(diff_eye_right_h * CENTER_STEP, 100)
        right_v == c.last_eye_right_v + RoundDiv(diff_eye_right_v * CENTER_STEP, 100)
        yaw == clamp(c.last_yaw + RoundDiv(diff_yaw * CENTER_STEP, 100),
                     Deg(YAW_MIN), Deg(YAW_MAX))
        pitch == clamp(c.last_pitch + RoundDiv(diff_pitch * CENTER_STEP, 100),
                       Deg(PITCH_MIN), Deg(PITCH_MAX))
        cmds == CnEyeCmds(left_h, right_h, left_v, right_v)
                \o << <<SERVO_YAW, PyRound(yaw)>> >> \o PitchRollCmds(pitch)
    IN  IF \/ Abs(diff_eye_left_h) > 1000 \/ Abs(diff_eye_left_v) > 1000
           \/ Abs(diff_eye_right_h) > 1000 \/ Abs(diff_eye_right_v) > 1000
           \/ Abs(diff_yaw) > 1000 \/ Abs(diff_pitch) > 1000
        THEN [c EXCEPT !.returning_to_center = TRUE,
                       !.last_eye_left_h = left_h, !.last_eye_left_v = left_v,
                       !.last_eye_right_h = right_h, !.last_eye_right_v = right_v,
                       !.last_yaw = yaw, !.last_pitch = pitch,
                       !.kit = CnCommand(c.kit, cmds), !.writes = PinsOf(cmds),
                       !.did = "centering"]
        ELSE [c EXCEPT !.last_eye_left_h = Deg(EYE_LEFT_H_CENTER),
                       !.last_eye_right_h = Deg(EYE_RIGHT_H_CENTER),
                       !.last_eye_left_v = Deg(EYE_LEFT_V_CENTER),
                       !.last_eye_right_v = Deg(EYE_RIGHT_V_CENTER),
                       !.last_yaw = Deg(YAW_CENTER), !.last_pitch = Deg(PITCH_CENTER),
                       !.is_centered = TRUE, !.returning_to_center = FALSE,
                       !.last_seen_dir_x = 0, !.last_seen_dir_y = 0,
                       !.kit = CnCommand(c.kit, CnCenterCmds), !.writes = PinsOf(CnCenterCmds),
                       !.did = "centered"]

\* MODO BUSQUEDA: eyes and neck sweep towards the side of the last detection
CnSearch(c, dt) ==
    LET eye_h == clamp(c.last_eye_left_h + c.last_seen_dir_x * SEARCH_RATE_DPS_EYE * dt,
                       Deg(EYE_H_MIN_CN), Deg(EYE_H_MAX_CN))
        yaw == clamp(c.last_yaw + c.last_seen_dir_x * INVERT_YAW * SEARCH_RATE_DPS_NECK_X * dt,
                     Deg(YAW_MIN), Deg(YAW_MAX))
        eye_v == clamp(c.last_eye_left_v + c.last_seen_dir_y * SEARCH_RATE_DPS_EYE * dt,
                       Deg(EYE_V_MIN_CN), Deg(EYE_V_MAX_CN))
        pitch == clamp(c.last_pitch
                         + c.last_seen_dir_y * INVERT_PITCH * SEARCH_RATE_DPS_NECK_Y * dt,
                       Deg(PITCH_MIN), Deg(PITCH_MAX))
        x == c.last_seen_dir_x # 0
        y == c.last_seen_dir_y # 0
        cmds == (IF x THEN << <<SERVO_EYE_LEFT_H_CN, PyRound(eye_h)>>,
                              <<SERVO_EYE_RIGHT_H_CN, PyRound(eye_h)>>,
                              <<SERVO_YAW, PyRound(yaw)>> >>
                      ELSE << >>)
                \o (IF y THEN << <<SERVO_EYE_LEFT_V_CN, PyRound(eye_v)>>,
                                 <<SERVO_EYE_RIGHT_V_CN, PyRound(eye_v)>> >>
                                 \o PitchRollCmds(pitch)
                         ELSE << >>)
    IN  [c EXCEPT !.last_eye_left_h = IF x THEN eye_h ELSE @,
                  !.last_eye_right_h = IF x THEN eye_h ELSE @,
                  !.last_yaw = IF x THEN yaw ELSE @,
                  !.last_eye_left_v = IF y THEN eye_v ELSE @,
                  !.last_eye_right_v = IF y THEN eye_v ELSE @,
                  !.last_pitch = IF y THEN pitch ELSE @,
                  !.kit = CnCommand(c.kit, cmds), !.writes = PinsOf(cmds),
                  !.did = "searching"]

\* SIN ROSTRO DETECTADO
CnNoFace(c, dt) ==
    LET time_without_face == 0 - c.last_seen_ms
        seen == [c EXCEPT !.have_face = FALSE, !.dt = dt, !.writes = << >>, !.did = "none",
                          !.compensate_yaw = FALSE, !.compensate_pitch = FALSE]
    IN  IF time_without_face > RETURN_CENTER_AFTER_MS /\ ~c.is_centered
        THEN CnReturn(seen)
        ELSE IF /\ time_without_face > LOST_AFTER_MS
                /\ (c.last_seen_dir_x # 0 \/ c.last_seen_dir_y # 0)
                /\ ~c.is_centered
        THEN CnSearch(seen, dt)
        ELSE seen

\* one iteration of the while loop that obtained a frame
CnIteration(have_face, face_cx, face_cy, adv) ==
    /\ cn.pc = "loop"
    /\ \E dt \in {Max(1, adv)} :
       \E c0 \in {[cn EXCEPT !.last_seen_ms = Shift(@, adv, -(RETURN_CENTER_AFTER_MS + 1))]} :
          cn' = IF have_face THEN CnTrack(c0, face_cx, face_cy, dt) ELSE CnNoFace(c0, dt)

\* cleanup_and_exit(), n times in a row: after a failed cap.read() once,
\* from the finally clause; after Ctrl+C twice, from signal_handler and,
\* its sys.exit(0) raising SystemExit in the loop, from the finally clause
CnExit(n) ==
    /\ cn.pc = "loop"
    /\ cn' = [pc |-> "exited", kit |-> CnCommand(cn.kit, CnCleanupCmds),
              writes |-> IF n = 1 THEN PinsOf(CnCleanupCmds)
                         ELSE PinsOf(CnCleanupCmds \o CnCleanupCmds),
              cleanups |-> cn.cleanups + n]

\* ------------------------------------------------------------------------
\* SpecCn: a face held at one place for any number of iterations, then lost
\* for good, until the camera fails or Ctrl+C is pressed
\* ------------------------------------------------------------------------
CnFaces == {<<620, 240>>, <<620, 40>>, <<20, 440>>, <<360, 270>>, <<320, 240>>}

CnAdvs == {100, 300}

InitCnRun ==
    /\ InitWith(Draws)
    /\ inmoov = NoTracker
    /\ cn = [InitCn EXCEPT !.kit = CnCommand(@, CnCenterCmds)]
    /\ svc = NoService /\ axis = NoAxis
    /\ run \in {[held |-> FALSE, face |-> f, adv |-> a, lost |-> FALSE] :
                   f \in CnFaces, a \in CnAdvs}

CnHeldFace ==
    /\ ~run.lost
    /\ CnIteration(TRUE, run.face[1], run.face[2], run.adv)
    /\ UNCHANGED <<eyes, head, blink, servo, writes, pc, tick, cleanups, frames, run, inmoov, svc, axis>>

CnLoss ==
    /\ CnIteration(FALSE, cx_frame, cy_frame, run.adv)
    /\ run' = [run EXCEPT !.lost = TRUE]
    /\ UNCHANGED <<eyes, head, blink, servo, writes, pc, tick, cleanups, frames, inmoov, svc, axis>>

CnReadFail ==
    /\ CnExit(1)
    /\ UNCHANGED <<eyes, head, blink, servo, writes, pc, tick, cleanups, frames, run, inmoov, svc, axis>>

CnSigint ==
    /\ CnExit(2)
    /\ UNCHANGED <<eyes, head, blink, servo, writes, pc, tick, cleanups, frames, run, inmoov, svc, axis>>

\* the iteration the loop is about to make on the held face
CnDueTrack ==
    CnTrack([cn EXCEPT !.last_seen_ms = Shift(@, run.adv, -(RETURN_CENTER_AFTER_MS + 1))],
            run.face[1], run.face[2], Max(1, run.adv))

\* the servo commands of that iteration, in order
CnDueCmds ==
    [i \in 1..Len(CnDueTrack.writes) |->
        <<CnDueTrack.writes[i], CnDueTrack.kit[CnDueTrack.writes[i]]>>]

\* kit.servo[pin].angle = ... raises at the k-th command of an iteration with
\* a face: the commands before it are done, nothing catches the exception
\* (the try has only "except KeyboardInterrupt"), the finally clause runs
\* cleanup_and_exit
CnWriteFails ==
    /\ cn.pc = "loop"
    /\ ~run.lost
    /\ \E k \in 1..Len(CnDueCmds) :
          \E done \in {SubSeq(CnDueCmds, 1, k - 1)} :
             cn' = [pc |-> "exited",
                    kit |-> CnCommand(CnCommand(cn.kit, done), CnCleanupCmds),
                    writes |-> PinsOf(done \o CnCleanupCmds),
                    cleanups |-> cn.cleanups + 1]
    /\ UNCHANGED <<eyes, head, blink, servo, writes, pc, tick, cleanups, frames, run, inmoov, svc, axis>>

NextCn == CnHeldFace \/ CnLoss \/ CnReadFail \/ CnSigint \/ CnWriteFails

SpecCn == InitCnRun /\ [][NextCn]_vars

\* ------------------------------------------------------------------------
\* src/services/servo_service.py: ServoService
\* ------------------------------------------------------------------------
\* the movement limits a service is given (horizontal_min, horizontal_max,
\* vertical_min, vertical_max); __init__ sets 0 and 180
ServiceLimits ==
    {[horizontal_min |-> Deg(0), horizontal_max |-> Deg(180),
      vertical_min |-> Deg(0), vertical_max |-> Deg(180)],
     [horizontal_min |-> Deg(90), horizontal_max |-> Deg(180),
      vertical_min |-> Deg(60), vertical_max |-> Deg(120)]}

\* ServoService(method), the limits adjusted
NewService(lim) ==
    [constructed |-> TRUE, is_initialized |-> FALSE,
     current_horizontal |-> Deg(90), current_vertical |-> Deg(90),
     horizontal_min |-> lim.horizontal_min, horizontal_max |-> lim.horizontal_max,
     vertical_min |-> lim.vertical_min, vertical_max |-> lim.vertical_max,
     call |-> "none", servo |-> "none", angle |-> 0, smooth |-> FALSE,
     sent |-> << >>, returned |-> TRUE, raised |-> FALSE]

\* steps of a smooth movement (the default of set_angle)
SmoothSteps == 10

\* the angles set_angle hands to _set_servo_angle, in order
AnglesToSend(current, angle, smooth) ==
    IF smooth
    THEN [i \in 1..(SmoothSteps + 1) |->
             current + RoundDiv((angle - current) * (i - 1), SmoothSteps)]
    ELSE << angle >>

set_angle_unclamped(s, name, angle, smooth, fail_at) ==
    IF ~s.is_initialized \/ name \notin {"horizontal", "vertical"}
    THEN [s EXCEPT !.call = "set_angle", !.servo = name, !.angle = angle,
                   !.smooth = smooth, !.sent = << >>, !.returned = FALSE]
    ELSE LET current == IF name = "horizontal" THEN s.current_horizontal
                        ELSE s.current_vertical
             all == AnglesToSend(current, angle, smooth)
         IN  IF fail_at \in 1..Len(all)
             THEN [s EXCEPT !.call = "set_angle", !.servo = name, !.angle = angle,
                            !.smooth = smooth, !.sent = SubSeq(all, 1, fail_at - 1),
                            !.returned = FALSE]
             ELSE [s EXCEPT !.call = "set_angle", !.servo = name, !.angle = angle,
                            !.smooth = smooth, !.sent = all, !.returned = TRUE,
                            !.current_horizontal = IF name = "horizontal" THEN angle ELSE @,
                            !.current_vertical = IF name = "vertical" THEN angle ELSE @]

\* set_angle(servo, angle, smooth), name being the servo; fail_at = k > 0: the k-th write to the
\* hardware raises, 0: none does. The result has the new fields of the
\* object, the angles sent and the value returned; nothing is raised: the
\* tests before the try cannot raise on numbers and the try catches Exception
set_angle(s, name, angle, smooth, fail_at) ==
    IF ~s.is_initialized \/ name \notin {"horizontal", "vertical"}
    THEN [s EXCEPT !.call = "set_angle", !.servo = name, !.angle = angle,
                   !.smooth = smooth, !.sent = << >>, !.returned = FALSE]
    ELSE LET lo == IF name = "horizontal" THEN s.horizontal_min ELSE s.vertical_min
             hi == IF name = "horizontal" THEN s.horizontal_max ELSE s.vertical_max
             clamped == Max(lo, Min(hi, angle))
             current == IF name = "horizontal" THEN s.current_horizontal
                        ELSE s.current_vertical
             all == AnglesToSend(current, clamped, smooth)
         IN  IF fail_at \in 1..Len(all)
             THEN [s EXCEPT !.call = "set_angle", !.servo = name, !.angle = angle,
                            !.smooth = smooth, !.sent = SubSeq(all, 1, fail_at - 1),
                            !.returned = FALSE]
             ELSE [s EXCEPT !.call = "set_angle", !.servo = name, !.angle = angle,
                            !.smooth = smooth, !.sent = all, !.returned = TRUE,
                            !.current_horizontal = IF name = "horizontal" THEN clamped ELSE @,
                            !.current_vertical = IF name = "vertical" THEN clamped ELSE @]

\* move_to_center(): set_angle("horizontal", 90), set_angle("vertical", 90)
move_to_center(s, fail_at) ==
    LET h == set_angle(s, "horizontal", Deg(90), FALSE, fail_at)
        v == set_angle(h, "vertical", Deg(90), FALSE, fail_at)
    IN  [v EXCEPT !.sent = h.sent \o v.sent]

\* initialize(): the servos are created, move_to_center() is called while
\* is_initialized is still False, and only then is_initialized = True; when
\* the hardware cannot be created the exception is caught and False returned
initialize(s, ok) ==
    IF ok
    THEN [move_to_center(s, 0) EXCEPT !.call = "initialize", !.is_initialized = TRUE,
                                      !.returned = TRUE]
    ELSE [s EXCEPT !.call = "initialize", !.returned = FALSE, !.sent = << >>]

\* cleanup()
ServiceCleanup(s) == [s EXCEPT !.call = "cleanup", !.is_initialized = FALSE, !.sent = << >>]

\* the angles callers request: below, on, inside and above the limits
Requests == {Deg(-10), Deg(0), Deg(75), Deg(90), 137500, Deg(180), Deg(200)}

InitService ==
    /\ InitWith(Draws)
    /\ run = NoRun
    /\ inmoov = NoTracker
    /\ cn = NoCn
    /\ svc \in {NewService(lim) : lim \in ServiceLimits}
    /\ axis = NoAxis

OthersUnchanged ==
    UNCHANGED <<eyes, head, blink, servo, writes, pc, tick, cleanups, frames, run, inmoov, cn,
                axis>>

Initialize ==
    /\ ~svc.is_initialized
    /\ \E ok \in BOOLEAN : svc' = initialize(svc, ok)
    /\ OthersUnchanged

SetAngle ==
    /\ \E name \in {"horizontal", "vertical", "roll"}, angle \in Requests,
          smooth \in BOOLEAN, fail_at \in {0, 1, SmoothSteps + 1} :
          svc' = set_angle(svc, name, angle, smooth, fail_at)
    /\ OthersUnchanged

Cleanup ==
    /\ svc.is_initialized
    /\ svc' = ServiceCleanup(svc)
    /\ OthersUnchanged

NextService == Initialize \/ SetAngle \/ Cleanup

SpecService == InitService /\ [][NextService]_vars

\* ------------------------------------------------------------------------
\* SpecSmooth: one axis whose desired angle is the same in every iteration
\* ------------------------------------------------------------------------
\* smoothing alpha (hundredths) and step limit (1/1000 degree, 0: the axis
\* has no limit_step) of the eye axes and of yaw and pitch
AxisFilters ==
    {[alpha |-> SMOOTH_ALPHA_H, max_step |-> MAX_STEP_DEG_H],
     [alpha |-> SMOOTH_ALPHA_V, max_step |-> MAX_STEP_DEG_V],
     [alpha |-> SMOOTH_ALPHA_YAW, max_step |-> 0],
     [alpha |-> SMOOTH_ALPHA_PITCH, max_step |-> 0]}

\* angles an axis starts from
StartAngles == {Deg(90), Deg(135), 171300}

\* desired angles after the clamp
DesiredAngles == {Deg(60), 93700, 123456, Deg(180)}

\* smoothing, then limit_step where the axis has one
FollowStep(a) ==
    LET smooth == Smooth(a.alpha, a.desired, a.last)
    IN  IF a.max_step > 0 THEN limit_step(a.last, smooth, a.max_step) ELSE smooth

InitSmooth ==
    /\ InitWith(Draws)
    /\ run = NoRun
    /\ inmoov = NoTracker
    /\ cn = NoCn
    /\ svc = NoService
    /\ axis \in {[followed |-> TRUE, start |-> s, last |-> s, desired |-> d,
                  alpha |-> f.alpha, max_step |-> f.max_step] :
                    s \in StartAngles, d \in DesiredAngles, f \in AxisFilters}

\* one iteration: last = limit_step(last, alpha * desired + (1 - alpha) * last)
SmoothTick ==
    /\ axis.followed
    /\ axis' = [axis EXCEPT !.last = FollowStep(axis)]
    /\ UNCHANGED <<eyes, head, blink, servo, writes, pc, tick, cleanups, frames, run, inmoov, cn,
                   svc>>

SpecSmooth == InitSmooth /\ [][SmoothTick]_vars /\ WF_vars(SmoothTick)

\* ------------------------------------------------------------------------
\* Properties
\* ------------------------------------------------------------------------
InRange(a, lo, hi) == Deg(lo) <= a /\ a <= Deg(hi)

\* C1: after any sequence of iterations (face held, then lost: tracking,
\* searching, centering) every eye axis is within its own [min, max], yaw
\* within [YAW_MIN, YAW_MAX] and pitch within [PITCH_MIN, PITCH_MAX], in the
\* stored angle and in the angle last commanded to the servo.
AxesInRange ==
    /\ InRange(eyes.last_h_izq, H_MIN, H_MAX)
    /\ InRange(eyes.last_h_der, H_MIN, H_MAX)
    /\ InRange(eyes.last_v_izq, V_MIN_IZQ, V_MAX_IZQ)
    /\ InRange(eyes.last_v_der, V_MIN_DER, V_MAX_DER)
    /\ InRange(head.last_yaw, YAW_MIN, YAW_MAX)
    /\ InRange(head.last_pitch, PITCH_MIN, PITCH_MAX)
    /\ InRange(servo[PIN_OJO_IZQ_H], H_MIN, H_MAX)
    /\ InRange(servo[PIN_OJO_DER_H], H_MIN, H_MAX)
    /\ InRange(servo[PIN_OJO_IZQ_V], V_MIN_IZQ, V_MAX_IZQ)
    /\ InRange(servo[PIN_OJO_DER_V], V_MIN_DER, V_MAX_DER)
    /\ InRange(servo[SERVO_YAW], YAW_MIN, YAW_MAX)
    /\ InRange(servo[SERVO_PITCH], PITCH_MIN, PITCH_MAX)

\* C1 witness: searching has driven the yaw to one of its limits after
\* tracking had driven the pitch to one of its limits
AxesAtLimit ==
    /\ tick.head_did = "searching"
    /\ head.last_yaw \in {Deg(YAW_MIN), Deg(YAW_MAX)}
    /\ head.last_pitch \in {Deg(PITCH_MIN), Deg(PITCH_MAX)}

\* milliseconds since the head region last saw a face, at the latest iteration
time_without_head == -head.last_seen_ms_head

\* C2: with LOST_AFTER_MS = 300 and RETURN_CENTER_AFTER_MS = 8000, a head that
\* has seen a face and then only iterations without one holds still up to
\* 300 ms, searches at every elapsed time in (300, 8000], and beyond 8000 is
\* centering until it is centered and then stays so: it never centers before
\* 8000 ms and never searches after.
LossPhaseByElapsed ==
    (run.held /\ run.seen /\ run.lost) =>
        /\ time_without_head <= LOST_AFTER_MS => tick.head_did = "none"
        /\ (LOST_AFTER_MS < time_without_head
              /\ time_without_head <= RETURN_CENTER_AFTER_MS_HEAD)
             => tick.head_did = "searching" /\ ~head.is_centered_head
        /\ time_without_head > RETURN_CENTER_AFTER_MS_HEAD
             => IF head.is_centered_head
                THEN tick.head_did \in {"centered", "none"}
                ELSE tick.head_did = "centering"

\* C2 witness: the head still searches exactly 8000 ms after the last face
SearchingAtReturnEdge ==
    /\ run.held /\ run.seen /\ run.lost
    /\ time_without_head = RETURN_CENTER_AFTER_MS_HEAD
    /\ tick.head_did = "searching"

\* C3: an iteration that detects a face, in whichever loss state the regions
\* were, runs the tracking update of both regions in that same iteration:
\* the centered / returning flags are cleared, the last-seen stamps are the
\* current time and the axes are driven by the PID path.
ReacquireTracksAtOnce ==
    (pc = "loop" /\ tick.have_face) =>
        /\ tick.eyes_did = "track" /\ tick.head_did = "track"
        /\ eyes.last_seen_ms_eyes = 0 /\ head.last_seen_ms_head = 0
        /\ ~head.is_centered_head /\ ~head.returning_to_center_head
        /\ ~eyes.is_centered_eyes

\* milliseconds since the eye region last saw a face, at the latest iteration
time_without_e == -eyes.last_seen_ms_eyes

EyesAtCenter ==
    /\ eyes.last_h_izq = Deg(H_CENTER) /\ eyes.last_h_der = Deg(H_CENTER)
    /\ eyes.last_v_izq = Deg(V_CENTER_IZQ) /\ eyes.last_v_der = Deg(V_CENTER_DER)

\* C4: in every loss episode of the eye region, also one that follows an
\* earlier centered state and a reacquisition, an iteration without a face
\* more than RETURN_CENTER_AFTER_MS_EYES after the last one eases the eyes
\* towards their centers, or finds them centered at their centers.
EyesRecenterEveryEpisode ==
    (pc = "loop" /\ ~tick.have_face /\ time_without_e > RETURN_CENTER_AFTER_MS_EYES) =>
        \/ tick.eyes_did \in {"centering", "centered"}
        \/ eyes.is_centered_eyes /\ EyesAtCenter

HeadAtCenter ==
    /\ head.last_yaw = Deg(YAW_CENTER) /\ head.last_pitch = Deg(PITCH_CENTER)
    /\ servo[SERVO_YAW] = Deg(YAW_CENTER) /\ servo[SERVO_PITCH] = Deg(PITCH_CENTER)
    /\ servo[SERVO_ROLL_LEFT] = Deg(ROLL_CENTER)
    /\ servo[SERVO_ROLL_RIGHT] = Deg(ROLL_CENTER)

\* the iteration that is being taken makes the head centered
EntersCentered == tick'.head_did = "centered"

HeadWithinOneDegree ==
    /\ Abs(Deg(YAW_CENTER) - head.last_yaw) <= Deg(1)
    /\ Abs(Deg(PITCH_CENTER) - head.last_pitch) <= Deg(1)

\* C5: once no face is seen any more and iterations keep coming, the head is
\* eventually centered, after finitely many centering iterations, wherever
\* yaw and pitch were when centering began; the iteration that makes it
\* centered starts with yaw and pitch within 1 degree of their centers, and
\* leaves the stored angles and the last commands exactly at the centers.
HeadCentersEventually ==
    /\ (run.held /\ run.lost) ~> (head.is_centered_head /\ HeadAtCenter)
    /\ [][EntersCentered => HeadWithinOneDegree]_vars
    /\ [](tick.head_did = "centered" => head.is_centered_head /\ HeadAtCenter)

\* C5 witness: a head that tracked a face and lost it has just been centered
HeadJustCentered ==
    /\ run.held /\ run.seen /\ run.lost
    /\ tick.head_did = "centered" /\ head.is_centered_head

LidsOpen ==
    /\ servo[PIN_PARPADO_ARRIBA] = sup_open
    /\ servo[PIN_PARPADO_ABAJO] = inf_open

\* one call of update_blink moves the animator at most one phase forward in
\* the cycle idle, closing, hold, opening, idle; the pending count is set to
\* 1 or 2 when a blink is scheduled, drops by one when opening ends, and is
\* otherwise kept; the call that ends opening commands both lids open
BlinkCycleStep ==
    LET phase == blink.blink_phase
        phase2 == blink'.blink_phase
        queue == blink.blink_queue
        queue2 == blink'.blink_queue
    IN  /\ phase = "idle" =>
              \/ phase2 = "idle" /\ queue2 = queue
              \/ phase2 = "closing" /\ queue = 0 /\ queue2 \in {1, 2}
              \/ phase2 = "closing" /\ queue = 1 /\ queue2 = 1
        /\ phase = "closing" => phase2 \in {"closing", "hold"} /\ queue2 = queue
        /\ phase = "hold" => phase2 \in {"hold", "opening"} /\ queue2 = queue
        /\ phase = "opening" =>
              \/ phase2 = "opening" /\ queue2 = queue
              \/ phase2 = "idle" /\ queue2 = queue - 1 /\ queue2 >= 0 /\ LidsOpen'

\* C6: from idle with the blink time reached and nothing pending, as the
\* iterations go on with advancing time the animator goes through closing,
\* hold, opening and idle in that order, once for a single blink and twice
\* for a double one, and is then idle with nothing pending and both lids
\* last commanded to their open angles.
BlinkRunsToCompletion ==
    /\ [][BlinkCycleStep]_vars
    /\ tick.blink_did = "scheduled"
          ~> (blink.blink_phase = "idle" /\ blink.blink_queue = 0 /\ LidsOpen)

\* C6 witness: the first blink of a double blink has just ended, the lids are
\* commanded open and the second blink is pending
FirstOfDoubleEnded ==
    /\ tick.blink_did = "opened" /\ blink.blink_phase = "idle"
    /\ blink.blink_queue = 1
    /\ LidsOpen

\* an iteration that sees a face no more than deadband pixels from target on
\* an axis commands no new angle to the servos that error drives
HoldsInsideDeadband ==
    (pc' = "loop" /\ tick'.have_face) =>
        /\ Abs(tick'.face_cx - tx) <= DEADBAND_PX_X_EYES
             => /\ servo'[PIN_OJO_IZQ_H] = servo[PIN_OJO_IZQ_H]
                /\ servo'[PIN_OJO_DER_H] = servo[PIN_OJO_DER_H]
        /\ Abs(tick'.face_cy - ty) <= DEADBAND_PX_Y_EYES
             => /\ servo'[PIN_OJO_IZQ_V] = servo[PIN_OJO_IZQ_V]
                /\ servo'[PIN_OJO_DER_V] = servo[PIN_OJO_DER_V]
        /\ Abs(tick'.face_cx - cx_frame) <= DEADBAND_PX_X_HEAD
             => servo'[SERVO_YAW] = servo[SERVO_YAW]
        /\ Abs(tick'.face_cy - cy_frame) <= DEADBAND_PX_Y_HEAD
             => servo'[SERVO_PITCH] = servo[SERVO_PITCH]

\* C9: in a tracking iteration in which the face is at or inside the
\* deadband of an axis, every servo driven by that error keeps exactly the
\* angle it was last commanded, whatever errors earlier iterations saw.
DeadbandKeepsAxes == [][HoldsInsideDeadband]_vars

\* what the deadband of width d makes of the pixel error e
DeadbandOf(e, d) == IF Abs(e) <= d THEN 0 ELSE e

\* C10: in every tracking variant a pixel error of magnitude at most the
\* deadband, the deadband itself included, is replaced by 0 before it is fed
\* to the controller, on each axis by itself, and a larger one is passed
\* through unchanged; here for calculate_eye_position of InMoovFaceTracker.
DeadbandIncludesEdge ==
    (inmoov.constructed /\ inmoov.have_face) =>
        /\ inmoov.eye_error_x = DeadbandOf(inmoov.error_x, DEADBAND_X)
        /\ inmoov.eye_error_y = DeadbandOf(inmoov.error_y, DEADBAND_Y)

\* C7: once the process has exited, on either termination path, the angle
\* last commanded to yaw, pitch, both rolls and the four eye axes is the
\* configured center of that axis.
ExitedAtCenter ==
    pc = "exited" =>
        /\ servo[SERVO_YAW] = Deg(YAW_CENTER)
        /\ servo[SERVO_PITCH] = Deg(PITCH_CENTER)
        /\ servo[SERVO_ROLL_LEFT] = Deg(ROLL_CENTER)
        /\ servo[SERVO_ROLL_RIGHT] = Deg(ROLL_CENTER)
        /\ servo[PIN_OJO_IZQ_H] = Deg(H_CENTER)
        /\ servo[PIN_OJO_DER_H] = Deg(H_CENTER)
        /\ servo[PIN_OJO_IZQ_V] = Deg(V_CENTER_IZQ)
        /\ servo[PIN_OJO_DER_V] = Deg(V_CENTER_DER)

\* C8: the four PID integrals never leave [-I_CLAMP, +I_CLAMP], however long
\* a constant nonzero error is fed.
IntegralsClamped ==
    /\ Abs(eyes.sum_err_h_e) <= I_CLAMP_EYES
    /\ Abs(eyes.sum_err_v_e) <= I_CLAMP_EYES
    /\ Abs(head.sum_err_yaw) <= I_CLAMP_HEAD
    /\ Abs(head.sum_err_pitch) <= I_CLAMP_HEAD

\* C8 witness: a tracking iteration leaves an eye integral and a head
\* integral at their clamps
IntegralsAtClamp ==
    /\ tick.have_face
    /\ Abs(eyes.sum_err_h_e) = I_CLAMP_EYES
    /\ Abs(head.sum_err_yaw) = I_CLAMP_HEAD

\* how far the four stored eye angles and the four eye commands move in the
\* iteration that is being taken
EyeStepH ==
    {Abs(eyes'.last_h_izq - eyes.last_h_izq), Abs(eyes'.last_h_der - eyes.last_h_der)}

EyeStepV ==
    {Abs(eyes'.last_v_izq - eyes.last_v_izq), Abs(eyes'.last_v_der - eyes.last_v_der)}

EyeCmdStepH ==
    {Abs(servo'[PIN_OJO_IZQ_H] - servo[PIN_OJO_IZQ_H]),
     Abs(servo'[PIN_OJO_DER_H] - servo[PIN_OJO_DER_H])}

EyeCmdStepV ==
    {Abs(servo'[PIN_OJO_IZQ_V] - servo[PIN_OJO_IZQ_V]),
     Abs(servo'[PIN_OJO_DER_V] - servo[PIN_OJO_DER_V])}

SlewWithinStep ==
    pc' = "loop" =>
        /\ \A d \in EyeStepH \cup EyeCmdStepH : d <= MAX_STEP_DEG_H
        /\ \A d \in EyeStepV \cup EyeCmdStepV : d <= MAX_STEP_DEG_V

EyeCmdsAreRounded ==
    /\ servo[PIN_OJO_IZQ_H] = PyRound(eyes.last_h_izq)
    /\ servo[PIN_OJO_DER_H] = PyRound(eyes.last_h_der)
    /\ servo[PIN_OJO_IZQ_V] = PyRound(eyes.last_v_izq)
    /\ servo[PIN_OJO_DER_V] = PyRound(eyes.last_v_der)

\* the share of the distance to the centre one step of the return covers
\* (half a unit of rounding allowed)
WithinCenterStep(last, last2, center) ==
    100 * Abs(last2 - last) <= CENTER_STEP * Abs(center - last) + 50

SlewByRegime ==
    pc' = "loop" =>
        /\ EyeCmdsAreRounded'
        /\ tick'.eyes_did = "track" =>
              /\ \A d \in EyeStepH : d <= MAX_STEP_DEG_H
              /\ \A d \in EyeStepV : d <= MAX_STEP_DEG_V
              /\ \A d \in EyeCmdStepH : d <= MAX_STEP_DEG_H + Deg(1)
              /\ \A d \in EyeCmdStepV : d <= MAX_STEP_DEG_V + Deg(1)
        /\ tick'.eyes_did = "none" =>
              \A d \in EyeStepH \cup EyeStepV \cup EyeCmdStepH \cup EyeCmdStepV : d = 0
        /\ tick'.eyes_did = "centering" =>
              /\ WithinCenterStep(eyes.last_h_izq, eyes'.last_h_izq, Deg(H_CENTER))
              /\ WithinCenterStep(eyes.last_h_der, eyes'.last_h_der, Deg(H_CENTER))
              /\ WithinCenterStep(eyes.last_v_izq, eyes'.last_v_izq, Deg(V_CENTER_IZQ))
              /\ WithinCenterStep(eyes.last_v_der, eyes'.last_v_der, Deg(V_CENTER_DER))
        /\ tick'.eyes_did = "centered" =>
              \A d \in EyeStepH \cup EyeStepV : (100 - CENTER_STEP) * d < 100 * Deg(1) + 50

EyeOffsetV(t) ==
    (Abs((t.current_eye_left_v + t.current_eye_right_v) \div 2
         - Deg(EYE_V_MAX + EYE_V_MIN) \div 2) * 1000)
    \div (Deg(EYE_V_MAX - EYE_V_MIN) \div 2)

\* the tracker as the frame that is being processed leaves its eyes, the
\* pitch still that of the frame before
EyesUpdated ==
    [inmoov EXCEPT !.current_eye_left_h = inmoov'.current_eye_left_h,
                   !.current_eye_right_h = inmoov'.current_eye_right_h,
                   !.current_eye_left_v = inmoov'.current_eye_left_v,
                   !.current_eye_right_v = inmoov'.current_eye_right_v]

NeckSeesUpdatedEyes ==
    inmoov'.have_face =>
        inmoov'.current_pitch = calculate_head_compensation(EyesUpdated)

\* C14: in a frame with a face the neck decision sees the eye angles as
\* that same frame has updated them: the pitch the frame ends with is the
\* compensation computed from the new eye angles; here for the run loop of
\* InMoovFaceTracker, whose update_servos commands the eyes before the pitch.
NeckDecidesAfterEyes == [][NeckSeesUpdatedEyes]_vars

PitchMovesOnlyPastThreshold ==
    (inmoov'.have_face /\ EyeOffsetV(inmoov') <= HEAD_THRESHOLD) =>
        /\ inmoov'.current_pitch = inmoov.current_pitch
        /\ inmoov'.kit[SERVO_PITCH_INMOOV] = inmoov.kit[SERVO_PITCH_INMOOV]

\* C12: in a tracking frame the neck axis is moved only if the displacement
\* of the eyes from their centre, measured after the eye update of that
\* frame, exceeds the threshold of 70 % of half the eye range; otherwise
\* the angle and the command of the neck axis are those of the frame before;
\* here for the pitch of InMoovFaceTracker.
NeckOnlyPastThreshold == [][PitchMovesOnlyPastThreshold]_vars

\* the face of the run is held far to one side: outside the eye deadband
FaceHeldAside ==
    /\ cn'.pc = "loop" /\ cn'.have_face
    /\ Abs(cn'.face_cx - cx_frame) > DEADBAND_EYE_X

\* the yaw has never been touched: angle, command and PID state are those
\* of the start
YawAtRest(c) ==
    /\ c.last_yaw = Deg(YAW_CENTER) /\ c.kit[SERVO_YAW] = Deg(YAW_CENTER)
    /\ c.sum_err_yaw = 0 /\ c.last_err_yaw = 0

YawCommanded(c) == \E i \in 1..Len(c.writes) : c.writes[i] = SERVO_YAW

EyesTurnAndNeckFollows ==
    FaceHeldAside =>
        /\ IF cn'.face_cx > cx_frame
           THEN /\ cn'.last_eye_left_h >= cn.last_eye_left_h
                /\ cn'.last_eye_right_h >= cn.last_eye_right_h
                /\ cn'.kit[SERVO_EYE_LEFT_H_CN] >= cn.kit[SERVO_EYE_LEFT_H_CN]
                /\ cn'.kit[SERVO_EYE_RIGHT_H_CN] >= cn.kit[SERVO_EYE_RIGHT_H_CN]
           ELSE /\ cn'.last_eye_left_h <= cn.last_eye_left_h
                /\ cn'.last_eye_right_h <= cn.last_eye_right_h
                /\ cn'.kit[SERVO_EYE_LEFT_H_CN] <= cn.kit[SERVO_EYE_LEFT_H_CN]
                /\ cn'.kit[SERVO_EYE_RIGHT_H_CN] <= cn.kit[SERVO_EYE_RIGHT_H_CN]
        /\ InRange(cn'.last_eye_left_h, ANGLE_MIN_OJO_IZQUIERDO_HORIZONTAL,
                   ANGLE_MAX_OJO_IZQUIERDO_HORIZONTAL)
        /\ InRange(cn'.last_eye_right_h, ANGLE_MIN_OJO_DERECHO_HORIZONTAL,
                   ANGLE_MAX_OJO_DERECHO_HORIZONTAL)
        /\ InRange(cn'.kit[SERVO_EYE_LEFT_H_CN], ANGLE_MIN_OJO_IZQUIERDO_HORIZONTAL,
                   ANGLE_MAX_OJO_IZQUIERDO_HORIZONTAL)
        /\ InRange(cn'.kit[SERVO_EYE_RIGHT_H_CN], ANGLE_MIN_OJO_DERECHO_HORIZONTAL,
                   ANGLE_MAX_OJO_DERECHO_HORIZONTAL)
        /\ IF Abs(cn'.last_eye_left_h - Deg(EYE_LEFT_H_CENTER)) * 100
                > NECK_THRESHOLD * (Deg(EYE_H_MAX_CN - EYE_H_MIN_CN) \div 2)
           THEN YawCommanded(cn')
           ELSE ~YawCommanded(cn') /\ YawAtRest(cn) /\ YawAtRest(cn')

\* C13: from rest, with the face held at one place far to one side on every
\* iteration (x = 620 or x = 20 of 640), no iteration moves the horizontal eye
\* angles or their commands back: they only grow for a face on the right and
\* only shrink for one on the left, and stay within the limits of each eye;
\* the yaw is commanded in the iterations that leave the eyes more than 70 %
\* of half their range from the centre, and until the first of them it has
\* never been commanded or changed.
EyesThenNeckOnHeldFace == [][EyesTurnAndNeckFollows]_vars

\* C13 witness: the face is held at x = 620, the eyes are past the threshold
\* on their way to the limit and the yaw has left its centre
NeckFollowsHeldFace ==
    /\ cn.pc = "loop" /\ cn.have_face /\ cn.face_cx = 620
    /\ cn.compensate_yaw /\ cn.last_yaw # Deg(YAW_CENTER)
    /\ cn.last_eye_left_h > Deg(150)

\* ------------------------------------------------------------------------
\* C15: channel exclusivity
\* ------------------------------------------------------------------------
\* the pins a sequence of pins holds
Range(seq) == {seq[i] : i \in 1..Len(seq)}

\* C15: in every loop iteration the eye logic commands eye pins only, the
\* head logic yaw, pitch and roll pins only, update_blink eyelid pins only;
\* the three sets of pins are pairwise disjoint, so no pin is commanded by
\* two of them in one iteration, and what the iteration wrote is what the
\* three wrote
OnePartPerPin ==
    pc = "loop" =>
        /\ Range(tick.eyes_pins) \subseteq EyePins
        /\ Range(tick.head_pins) \subseteq HeadPins
        /\ Range(tick.blink_pins) \subseteq LidPins
        /\ EyePins \cap HeadPins = {}
        /\ EyePins \cap LidPins = {}
        /\ HeadPins \cap LidPins = {}
        /\ \A p \in Pins :
              Cardinality({k \in {"eyes", "head", "blink"} :
                  p \in Range(CASE k = "eyes" -> tick.eyes_pins
                                [] k = "head" -> tick.head_pins
                                [] k = "blink" -> tick.blink_pins)}) <= 1
        /\ writes = tick.eyes_pins \o tick.head_pins \o tick.blink_pins

\* the eyes end their return to the centre, the head sweeps or returns and
\* the eyelids move, all in one iteration
AllThreeWrite ==
    /\ pc = "loop"
    /\ tick.eyes_did = "centered"
    /\ tick.head_pins # << >>
    /\ tick.blink_pins # << >>

\* ------------------------------------------------------------------------
\* C16: the blink runs in every iteration, on time and blink state alone
\* ------------------------------------------------------------------------
\* the step is one update_blink(now) on the blink state of before, now being
\* the time of the iteration: state, eyelid commands and eyelid angles
BlinkSteppedOnce ==
    \E r \in update_blink(AdvanceBlink(blink, run.adv), Draws) :
        /\ blink' = r.st
        /\ tick'.blink_did = r.did
        /\ tick'.blink_pins = PinsOf(r.cmds)
        /\ \A p \in LidPins : servo'[p] = Command(servo, r.cmds)[p]

\* C16: every loop iteration, with a face or without one and whatever the
\* eyes and the head do (tracking, waiting, searching, returning, centred),
\* makes exactly one update_blink step, whose outcome is determined by the
\* blink state, the time and the random draws alone
BlinkEveryIteration == [][pc' = "loop" => BlinkSteppedOnce]_vars

\* the eyelids reach the closed position while no face is seen and the head
\* searches
BlinkWhileSearching ==
    /\ pc = "loop"
    /\ ~tick.have_face
    /\ tick.head_did = "searching"
    /\ tick.blink_did = "closed"
    /\ tick.blink_pins # << >>

\* ------------------------------------------------------------------------
\* C17: a centred head rests until a face is seen again
\* ------------------------------------------------------------------------
\* the head holds the centre and does nothing in the iteration just made
HeadRestsAtCenter ==
    /\ tick'.head_did = "none"
    /\ tick'.head_pins = << >>
    /\ \A p \in HeadPins : servo'[p] = servo[p]
    /\ head'.is_centered_head
    /\ ~head'.returning_to_center_head
    /\ head'.last_yaw = Deg(YAW_CENTER)
    /\ head'.last_pitch = Deg(PITCH_CENTER)
    /\ head'.last_seen_dir_x = 0
    /\ head'.last_seen_dir_y = 0

\* C17: once the head is centred (is_centered_head), every further iteration
\* without a face commands none of the yaw, pitch and roll pins, leaves the
\* stored yaw and pitch exactly at the centre and both last-seen directions
\* at 0, and keeps the head centred: no search and no return starts again
CenteredHeadStaysIdle ==
    [][(pc = "loop" /\ pc' = "loop" /\ head.is_centered_head /\ ~tick'.have_face)
          => HeadRestsAtCenter]_vars

\* the head has been centred and a further iteration without a face has passed
HeadIdleAfterCentering ==
    /\ pc = "loop"
    /\ run.lost
    /\ ~tick.have_face
    /\ head.is_centered_head
    /\ tick.head_did = "none"
    /\ 0 - head.last_seen_ms_head > RETURN_CENTER_AFTER_MS_HEAD

\* ------------------------------------------------------------------------
\* C18: the search sweep of the head
\* ------------------------------------------------------------------------
\* an axis at angle last, swept for dt milliseconds at rate degrees per
\* second towards dir (+1 up, -1 down, 0 not searched), stopping at a limit
Swept(last, dir, rate, dt, lo, hi) ==
    IF dir > 0 THEN Min(last + rate * dt, hi)
    ELSE IF dir < 0 THEN Max(last - rate * dt, lo)
    ELSE last

\* the yaw and pitch after a searching iteration, and the directions kept
SweptByRate ==
    /\ head'.last_yaw = Swept(head.last_yaw, head.last_seen_dir_x * INVERT_YAW,
                              SEARCH_RATE_DPS_X, tick'.dt, Deg(YAW_MIN), Deg(YAW_MAX))
    /\ head'.last_pitch = Swept(head.last_pitch, head.last_seen_dir_y * INVERT_PITCH,
                                SEARCH_RATE_DPS_Y, tick'.dt, Deg(PITCH_MIN), Deg(PITCH_MAX))
    /\ head'.last_seen_dir_x = head.last_seen_dir_x
    /\ head'.last_seen_dir_y = head.last_seen_dir_y

\* an axis a searching iteration left at a limit is still there after the
\* next searching iteration
StaysAtLimit ==
    tick.head_did = "searching" =>
        /\ head.last_yaw \in {Deg(YAW_MIN), Deg(YAW_MAX)} => head'.last_yaw = head.last_yaw
        /\ head.last_pitch \in {Deg(PITCH_MIN), Deg(PITCH_MAX)}
              => head'.last_pitch = head.last_pitch

\* C18: every searching iteration of the head moves yaw and pitch by the
\* search rate times the dt of the iteration towards the side the face was
\* last seen on, stopping at the limit of the axis, and keeps the direction;
\* an axis the sweep has brought to a limit stays there while the search
\* goes on
SearchSweepsAtRate ==
    [][(pc = "loop" /\ pc' = "loop" /\ tick'.head_did = "searching")
          => (SweptByRate /\ StaysAtLimit)]_vars

\* the sweep has brought the yaw from the centre to its lower limit while
\* the pitch is still on its way
YawSweptToLimit ==
    /\ pc = "loop"
    /\ run.face = <<360, 262>>
    /\ tick.head_did = "searching"
    /\ head.last_yaw = Deg(YAW_MIN)
    /\ head.last_pitch > Deg(PITCH_MIN) /\ head.last_pitch < Deg(PITCH_MAX)

\* ------------------------------------------------------------------------
\* C19: the last seen state
\* ------------------------------------------------------------------------
\* -1, 0 or +1
Sign(x) == IF x < 0 THEN -1 ELSE IF x > 0 THEN 1 ELSE 0

\* C19: after every iteration with a face, last_seen_ms_head is the time of
\* the iteration and last_seen_dir_x / last_seen_dir_y are the signs of the
\* horizontal and vertical pixel error of the head in that iteration, 0 for
\* a face on the centre or within the deadband
LastSeenIsSignOfError ==
    (pc = "loop" /\ tick.have_face) =>
        /\ head.last_seen_ms_head = 0
        /\ head.last_seen_dir_x
              = Sign(Deadband(tick.face_cx - cx_frame, DEADBAND_PX_X_HEAD))
        /\ head.last_seen_dir_y
              = Sign(Deadband(tick.face_cy - cy_frame, DEADBAND_PX_Y_HEAD))

\* ------------------------------------------------------------------------
\* C20: a failed cap.read() ends the loop
\* ------------------------------------------------------------------------
\* the step made nothing of an iteration and ran center_all: the only pins
\* commanded are those of cleanup_and_exit, in its order, every pin but the
\* pitch is left at its centre
ShutdownRan ==
    /\ frames' = frames
    /\ tick' = Gone
    /\ writes' = PinsOf(CenterAllCmds) \o << SERVO_PITCH >>
    /\ \A p \in Pins \ {SERVO_PITCH} : servo'[p] = Command(servo, CenterAllCmds)[p]

\* C20: the step in which cap.read() fails leaves the loop at once, without
\* any detection, tracking, search, centring or blink step for that frame,
\* after center_all has been run once by cleanup_and_exit; no iteration
\* follows an exit
ReadFailEndsLoop ==
    [][/\ ReadFail => ShutdownRan
       /\ pc # "exited"]_vars

\* the read failed after iterations that had moved eyes and head
ReadFailedWhileTracking ==
    /\ pc = "exited"
    /\ cleanups = 1
    /\ frames = 2
    /\ servo[SERVO_YAW] = Deg(YAW_CENTER)
    /\ servo[PIN_OJO_IZQ_H] = Deg(H_CENTER)

\* ------------------------------------------------------------------------
\* C21: an exception of the face detector
\* ------------------------------------------------------------------------
\* the iteration was made as one without a face: the loop goes on, eyes and
\* head did what they do without a face and the PID state is untouched
HandledAsNoFace ==
    /\ pc' = "loop"
    /\ ~tick'.have_face
    /\ tick'.eyes_did \in {"none", "centering", "centered"}
    /\ tick'.head_did \in {"none", "searching", "centering", "centered"}
    /\ eyes'.sum_err_h_e = eyes.sum_err_h_e /\ eyes'.sum_err_v_e = eyes.sum_err_v_e
    /\ head'.sum_err_yaw = head.sum_err_yaw /\ head'.sum_err_pitch = head.sum_err_pitch

\* C21: when fd.process raises on a frame, the iteration is handled as one
\* without a face and the loop goes on with the next frame
DetectorErrorIsNoFace == [][DetectorRaises => HandledAsNoFace]_vars

\* ------------------------------------------------------------------------
\* C22: a servo write that raises
\* ------------------------------------------------------------------------
\* the loop goes on and at most the one pin whose write raised misses the
\* angle the iteration was to command
WriteFailureConfined ==
    /\ cn'.pc = "loop"
    /\ Cardinality({p \in Range(CnDueTrack.writes) : cn'.kit[p] # CnDueTrack.kit[p]}) <= 1

\* C22: when the write of one servo raises during an iteration, every other
\* servo due in that iteration is still commanded and the loop goes on
WriteFailureSkipsOneAxis == [][CnWriteFails => WriteFailureConfined]_vars

\* ------------------------------------------------------------------------
\* C23: ServoService.set_angle clamps
\* ------------------------------------------------------------------------
\* the latest call was set_angle for one of the two servos of a service that
\* was initialized when it was called
SetAngleCalled(s) ==
    s.call = "set_angle" /\ s.is_initialized /\ s.servo \in {"horizontal", "vertical"}

StoredAngle(s) == IF s.servo = "horizontal" THEN s.current_horizontal ELSE s.current_vertical

LimitLo(s) == IF s.servo = "horizontal" THEN s.horizontal_min ELSE s.vertical_min

LimitHi(s) == IF s.servo = "horizontal" THEN s.horizontal_max ELSE s.vertical_max

\* the request brought into [lo, hi]: hi above, lo below, itself inside
ClampedRequest(s) ==
    IF s.angle > LimitHi(s) THEN LimitHi(s)
    ELSE IF s.angle < LimitLo(s) THEN LimitLo(s)
    ELSE s.angle

\* C23 as stated: after every set_angle on an initialized service nothing
\* was raised, the stored angle is the request clamped to [lo, hi] and that
\* angle is the one sent to the servo
SetAngleAlwaysStoresClamped ==
    SetAngleCalled(svc) =>
        /\ ~svc.raised
        /\ StoredAngle(svc) = ClampedRequest(svc)
        /\ svc.sent # << >>
        /\ svc.sent[Len(svc.sent)] = ClampedRequest(svc)

\* every angle sent lies within the limits
SentWithinLimits(s) ==
    \A i \in 1..Len(s.sent) : LimitLo(s) <= s.sent[i] /\ s.sent[i] <= LimitHi(s)

\* the outcome of a set_angle step
ClampedOrKept ==
    /\ ~svc'.raised
    /\ SentWithinLimits(svc')
    /\ LimitLo(svc') <= StoredAngle(svc') /\ StoredAngle(svc') <= LimitHi(svc')
    /\ IF svc'.returned
       THEN /\ StoredAngle(svc') = ClampedRequest(svc')
            /\ svc'.sent # << >>
            /\ svc'.sent[Len(svc'.sent)] = ClampedRequest(svc')
       ELSE /\ svc'.current_horizontal = svc.current_horizontal
            /\ svc'.current_vertical = svc.current_vertical

\* C23, amended: set_angle on an initialized service never raises and keeps
\* the stored angle and every angle it sends inside [lo, hi]; when the
\* writes to the servo succeed it stores the request clamped to [lo, hi]
\* and that angle is the last one sent; when a write raises it returns
\* False and leaves the stored angle as it was
SetAngleStoresClamped ==
    [][(svc.is_initialized /\ SetAngleCalled(svc')) => ClampedOrKept]_vars

\* limits [90, 180], 200 requested: 180 stored and sent
RequestAboveLimitStored ==
    /\ SetAngleCalled(svc)
    /\ svc.servo = "horizontal"
    /\ svc.horizontal_min = Deg(90) /\ svc.horizontal_max = Deg(180)
    /\ svc.angle = Deg(200)
    /\ svc.returned
    /\ svc.current_horizontal = Deg(180)
    /\ svc.sent = << Deg(180) >>

\* ------------------------------------------------------------------------
\* C24: the face that is tracked
\* ------------------------------------------------------------------------
\* C24: on a frame with several detections InMoovFaceTracker tracks the one
\* of the highest score, whatever their order in the list
TracksHighestScore ==
    (inmoov.have_face /\ Len(inmoov.detections) > 1) =>
        /\ inmoov.error_x = center_x - HighestScore(inmoov.detections).face_x
        /\ inmoov.error_y = center_y - HighestScore(inmoov.detections).face_y

\* ------------------------------------------------------------------------
\* C25: no sleep in the loop
\* ------------------------------------------------------------------------
\* C25: no loop iteration sleeps, whatever eyes and head do in it, the
\* iteration that ends a return to the centre included
NoSleepInLoop == pc = "loop" => tick.slept = 0

\* ------------------------------------------------------------------------
\* C26: the smoothed angle reaches a constant target
\* ------------------------------------------------------------------------
WithinOneDegree == Abs(axis.last - axis.desired) < Deg(1)

\* C26: with the same desired angle in every iteration and alpha > 0, the
\* smoothed and step-limited angle comes within 1 degree of the desired
\* angle and stays within 1 degree of it from then on
SmoothedSettlesOnTarget == <>[]WithinOneDegree

\* a step-limited eye axis that started 90 degrees from the desired angle
\* is within a degree of it
SettledFromFar ==
    /\ axis.followed
    /\ axis.max_step > 0
    /\ axis.start = Deg(90)
    /\ axis.desired = Deg(180)
    /\ WithinOneDegree

\* ------------------------------------------------------------------------
\* C27: the phases follow the cycle, one step per call
\* ------------------------------------------------------------------------
PhaseAfter(phase) ==
    CASE phase = "idle" -> "closing"
      [] phase = "closing" -> "hold"
      [] phase = "hold" -> "opening"
      [] phase = "opening" -> "idle"

\* C27: in one call of update_blink the phase stays as it is or goes to the
\* next phase of idle, closing, hold, opening, idle; no phase is skipped or
\* entered out of order, however long the gap since the previous call
PhaseOneStepAlongCycle ==
    [][pc' = "loop" =>
          blink'.blink_phase \in {blink.blink_phase, PhaseAfter(blink.blink_phase)}]_vars

\* a call that comes, during closing, later than a whole blink lasts ends
\* the closing and enters hold
LongGapEntersHold ==
    /\ pc = "loop"
    /\ tick.dt > PhaseHorizon + HOLD_CERRADO_S[2]
    /\ tick.blink_did = "closed"
    /\ blink.blink_phase = "hold"

\* ------------------------------------------------------------------------
\* C28: closing ends closed, hold keeps the lids closed
\* ------------------------------------------------------------------------
Eyelids == {PIN_PARPADO_ARRIBA, PIN_PARPADO_ABAJO}

LidsClosed ==
    /\ servo[PIN_PARPADO_ARRIBA] = sup_close
    /\ servo[PIN_PARPADO_ABAJO] = inf_close

\* what a call of update_blink does at the end of closing and during hold
ClosingAndHoldStep ==
    LET phase == blink.blink_phase
        phase2 == blink'.blink_phase
        elapsed == 0 - AdvanceBlink(blink, tick'.dt).phase_t0
    IN  /\ (phase = "closing" /\ phase2 = "hold") =>
              /\ elapsed >= blink.dur_close_sup
              /\ elapsed >= blink.dur_close_inf
              /\ Range(tick'.blink_pins) = Eyelids
              /\ LidsClosed'
        /\ phase = "hold" =>
              /\ tick'.blink_pins = << >>
              /\ Range(writes') \cap Eyelids = {}
              /\ LidsClosed /\ LidsClosed'
        /\ (phase = "hold" /\ phase2 = "opening") => elapsed >= blink.hold_dur

\* C28: closing is left for hold only in a call in which the progress of
\* both lids has reached 1, and that call commands both lids their closed
\* angles; no call made during hold commands a lid, so both stay closed
\* until opening starts, which it does only once the hold duration is over
ClosedThroughHold == [][pc' = "loop" => ClosingAndHoldStep]_vars

\* a call has been made during hold, before the hold duration was over: no
\* lid was commanded and both are at their closed angles
HeldClosed ==
    /\ pc = "loop"
    /\ blink.blink_phase = "hold"
    /\ tick.blink_did = "holding"
    /\ tick.blink_pins = << >>
    /\ LidsClosed

\* ------------------------------------------------------------------------
\* C29: the end of opening and the pending count
\* ------------------------------------------------------------------------
\* what a call of update_blink does to the pending count and to the time of
\* the next blink; a call that rolls the coin reports "scheduled"
PendingCountStep ==
    LET phase == blink.blink_phase
        phase2 == blink'.blink_phase
        queue == blink.blink_queue
        queue2 == blink'.blink_queue
        opened == phase = "opening" /\ phase2 = "idle"
        rolled == tick'.blink_did = "scheduled"
        expired == 0 >= AdvanceBlink(blink, tick'.dt).next_blink_time
    IN  /\ opened =>
              /\ queue2 = queue - 1
              /\ IF queue2 > 0
                 THEN blink'.next_blink_time
                         \in PAUSA_ENTRE_DOBLE_S[1]..PAUSA_ENTRE_DOBLE_S[2]
                 ELSE blink'.next_blink_time
                         \in INTERVALO_PARPADEO_S[1]..INTERVALO_PARPADEO_S[2]
        /\ (phase = "idle" /\ queue > 0 /\ phase2 = "closing") =>
              ~rolled /\ queue2 = queue
        /\ rolled => phase = "idle" /\ queue = 0 /\ expired
        /\ queue2 # queue => opened \/ rolled

\* C29: the call that ends opening takes exactly 1 off the pending count;
\* with a count still above 0 it goes to idle with the next blink a pause of
\* the double-blink range away, and the closing that follows starts without
\* a coin roll; with a count of 0 the next blink is an interval of the blink
\* interval range away.  The coin is rolled only when idle expires with a
\* pending count of 0.
OpeningEndsOneBlink == [][pc' = "loop" => PendingCountStep]_vars

\* the second blink of a double blink has started, after the pause, with the
\* pending count still at 1
SecondBlinkStarted ==
    /\ pc = "loop"
    /\ tick.blink_did = "restarted"
    /\ blink.blink_phase = "closing"
    /\ blink.blink_queue = 1

\* ------------------------------------------------------------------------
\* C30: the range of the pending count
\* ------------------------------------------------------------------------
\* the pending count fits the phase
CountFitsPhase ==
    /\ blink.blink_queue \in {0, 1, 2}
    /\ blink.blink_phase \in {"closing", "hold", "opening"} => blink.blink_queue >= 1
    /\ blink.blink_phase = "idle" => blink.blink_queue \in {0, 1}

\* idle with a pending count of 1 begins when the first blink of a double
\* blink ends and lasts while the pause set by that call runs
InPauseOfDouble ==
    (blink'.blink_phase = "idle" /\ blink'.blink_queue = 1) =>
        \/ /\ blink.blink_phase = "opening" /\ blink.blink_queue = 2
           /\ tick'.blink_did = "opened"
           /\ blink'.next_blink_time
                 \in PAUSA_ENTRE_DOBLE_S[1]..PAUSA_ENTRE_DOBLE_S[2]
        \/ /\ blink.blink_phase = "idle" /\ blink.blink_queue = 1
           /\ tick'.blink_did = "waiting"
           /\ blink'.next_blink_time > 0
           /\ blink'.next_blink_time < blink.next_blink_time

\* C30: after every call of update_blink the pending count is 0, 1 or 2;
\* it is at least 1 in closing, hold and opening; in idle it is 0 or 1, and
\* 1 only during the pause between the two blinks of a double blink
PendingCountFitsPhase ==
    /\ [](pc = "loop" => CountFitsPhase)
    /\ [][pc' = "loop" => InPauseOfDouble]_vars

\* a call made during the pause of a double blink: idle, one blink pending,
\* the pause not yet over
WaitingInPause ==
    /\ pc = "loop"
    /\ tick.blink_did = "waiting"
    /\ blink.blink_phase = "idle"
    /\ blink.blink_queue = 1
    /\ blink.next_blink_time > 0

\* ------------------------------------------------------------------------
\* C31: the return to the centre is eased
\* ------------------------------------------------------------------------
\* the eased axes of the eyes and of the head: stored angle before and after
\* the step, centre, pin
EyeAxes ==
    { [old |-> eyes.last_h_izq, new |-> eyes'.last_h_izq, center |-> Deg(H_CENTER),
       pin |-> PIN_OJO_IZQ_H],
      [old |-> eyes.last_h_der, new |-> eyes'.last_h_der, center |-> Deg(H_CENTER),
       pin |-> PIN_OJO_DER_H],
      [old |-> eyes.last_v_izq, new |-> eyes'.last_v_izq, center |-> Deg(V_CENTER_IZQ),
       pin |-> PIN_OJO_IZQ_V],
      [old |-> eyes.last_v_der, new |-> eyes'.last_v_der, center |-> Deg(V_CENTER_DER),
       pin |-> PIN_OJO_DER_V] }

HeadAxes ==
    { [old |-> head.last_yaw, new |-> head'.last_yaw, center |-> Deg(YAW_CENTER),
       pin |-> SERVO_YAW],
      [old |-> head.last_pitch, new |-> head'.last_pitch, center |-> Deg(PITCH_CENTER),
       pin |-> SERVO_PITCH] }

\* the axis did not go past its centre nor away from it, and its change is
\* the proportional step at most (half a unit of the angle resolution is
\* allowed for the rounding of the step)
TowardsCenter(a) ==
    /\ a.old >= a.center => a.new >= a.center
    /\ a.old <= a.center => a.new <= a.center
    /\ Abs(a.center - a.new) <= Abs(a.center - a.old)
    /\ 100 * Abs(a.new - a.old) <= CENTER_STEP * Abs(a.center - a.old) + 50

Closer(a) == Abs(a.center - a.new) < Abs(a.center - a.old)

\* the write that ends the return puts the servo at most 1 degree from where
\* the previous command had put it
FinalWrite(a) ==
    /\ a.new = a.center
    /\ servo'[a.pin] = a.center
    /\ Abs(servo'[a.pin] - servo[a.pin]) <= Deg(1)

EasedStep(Moves(_)) ==
    /\ tick'.eyes_did = "centering" => \A a \in EyeAxes : TowardsCenter(a) /\ Moves(a)
    /\ tick'.head_did = "centering" => \A a \in HeadAxes : TowardsCenter(a) /\ Moves(a)
    /\ tick'.eyes_did = "centered" => \A a \in EyeAxes : FinalWrite(a)
    /\ tick'.head_did = "centered" => \A a \in HeadAxes : FinalWrite(a)

\* C31: in every centering iteration every axis of the region moves towards
\* its centre by the proportional step: its distance to the centre strictly
\* decreases, it does not go past the centre or away from it, it changes by
\* no more than the step, and the final write to the centre moves it by at
\* most 1 degree
EveryAxisGetsCloser == [][pc' = "loop" => EasedStep(Closer)]_vars

\* an axis at its centre stays there, any other axis gets closer
CloserOrThere(a) == IF a.old = a.center THEN a.new = a.center ELSE Closer(a)

\* C31, for an axis that may already be at its centre: in every centering
\* iteration every axis of the region that is not at its centre gets strictly
\* closer to it and an axis at its centre stays there; no axis goes past the
\* centre or away from it or changes by more than the proportional step, and
\* the final write to the centre moves the servo by at most 1 degree
CenteringEases == [][pc' = "loop" => EasedStep(CloserOrThere)]_vars

\* eyes and head are both on their way back: the left eye, which was at its
\* vertical centre, is still there, and its horizontal axis is not yet
EasingWithAnAxisAtCenter ==
    /\ pc = "loop"
    /\ tick.eyes_did = "centering"
    /\ tick.head_did = "centering"
    /\ eyes.last_v_izq = Deg(V_CENTER_IZQ)
    /\ eyes.last_h_izq # Deg(H_CENTER)

\* ------------------------------------------------------------------------
\* C32: a short loss, and a loss with no direction to search in, move nothing
\* ------------------------------------------------------------------------
\* the time without a face that the iteration about to run will compute
TimeWithoutHead ==
    0 - Shift(head.last_seen_ms_head, run.adv, -(RETURN_CENTER_AFTER_MS_HEAD + 1))

TimeWithoutEyes ==
    0 - Shift(eyes.last_seen_ms_eyes, run.adv, -(RETURN_CENTER_AFTER_MS_EYES + 1))

NoDirection == head.last_seen_dir_x = 0 /\ head.last_seen_dir_y = 0

\* the head is left as it was: no command, and its state unchanged but for
\* the age of the last-seen time stamp
HeadHeld ==
    /\ tick'.head_pins = << >>
    /\ Range(writes') \cap HeadPins = {}
    /\ \A p \in HeadPins : servo'[p] = servo[p]
    /\ head' = [head EXCEPT !.last_seen_ms_head = 0 - TimeWithoutHead]

EyesHeld ==
    /\ tick'.eyes_pins = << >>
    /\ Range(writes') \cap EyePins = {}
    /\ \A p \in EyePins : servo'[p] = servo[p]
    /\ eyes' = [eyes EXCEPT !.last_seen_ms_eyes = 0 - TimeWithoutEyes]

HoldStep ==
    (pc' = "loop" /\ ~tick'.have_face) =>
        /\ TimeWithoutHead <= LOST_AFTER_MS => HeadHeld
        /\ (TimeWithoutHead <= RETURN_CENTER_AFTER_MS_HEAD /\ NoDirection) => HeadHeld
        /\ TimeWithoutEyes <= RETURN_CENTER_AFTER_MS_EYES => EyesHeld

\* C32: an iteration without a face that comes no more than LOST_AFTER_MS
\* after the last face, or before the return to the centre is due while the
\* last-seen direction is 0 on both axes, commands no servo of the region
\* and leaves its angles, its last-seen time stamp, the last-seen direction
\* and the centred flag as they were
ShortLossHolds == [][HoldStep]_vars

\* the face was lost LOST_AFTER_MS ago, a direction to search in is known,
\* and the head has not moved
HeldAtShortLoss ==
    /\ pc = "loop"
    /\ ~tick.have_face
    /\ tick.head_did = "none" /\ tick.eyes_did = "none"
    /\ head.last_seen_ms_head = 0 - LOST_AFTER_MS
    /\ head.last_seen_dir_x # 0
    /\ ~head.is_centered_head

\* ------------------------------------------------------------------------
\* C33: only tracking changes the PID state
\* ------------------------------------------------------------------------
PidState ==
    <<eyes.sum_err_h_e, eyes.last_err_h_e, eyes.sum_err_v_e, eyes.last_err_v_e,
      head.sum_err_yaw, head.last_err_yaw, head.sum_err_pitch, head.last_err_pitch>>

\* the integral goes on from its previous value: sum + err * dt, clamped
Accumulated(sum2, sum, err, i_clamp) ==
    sum2 = clamp(sum + RoundDiv(err * tick'.dt, 1000), -i_clamp, i_clamp)

PidStep ==
    pc' = "loop" =>
        /\ ~tick'.have_face => PidState' = PidState
        /\ tick'.have_face =>
              /\ Accumulated(eyes'.sum_err_h_e, eyes.sum_err_h_e, eyes'.last_err_h_e,
                             I_CLAMP_EYES)
              /\ Accumulated(eyes'.sum_err_v_e, eyes.sum_err_v_e, eyes'.last_err_v_e,
                             I_CLAMP_EYES)
              /\ Accumulated(head'.sum_err_yaw, head.sum_err_yaw, head'.last_err_yaw,
                             I_CLAMP_HEAD)
              /\ Accumulated(head'.sum_err_pitch, head.sum_err_pitch, head'.last_err_pitch,
                             I_CLAMP_HEAD)

\* C33: an iteration without a face, whether it holds, searches, returns or
\* ends the return, leaves every PID integral and every last error as it
\* was; an iteration with a face, the first after a loss or a return
\* included, accumulates on the integral it finds and never starts from zero
PidChangedByTrackingOnly == [][PidStep]_vars

\* the head has just ended its return to the centre with a yaw integral
\* that is not zero
CenteredWithIntegral ==
    /\ pc = "loop"
    /\ ~tick.have_face
    /\ tick.head_did = "centered"
    /\ head.is_centered_head
    /\ head.sum_err_yaw # 0

\* ------------------------------------------------------------------------
\* C34: the search sweeps the way the tracking was going
\* ------------------------------------------------------------------------
\* the direction in which the tracking update moves each axis for the face
\* last tracked, taken from the middle of the axis with a PID at rest
TrackDirEyeH ==
    Sign(CnEyeAxis(Deg(EYE_LEFT_H_CENTER), 0, 0,
                   Deadband(cx_frame - run.face[1], DEADBAND_EYE_X), FRAME_W \div 2,
                   run.adv, EYE_H_MIN_CN, EYE_H_MAX_CN).smooth - Deg(EYE_LEFT_H_CENTER))

TrackDirEyeV ==
    Sign(CnEyeAxis(Deg(EYE_LEFT_V_CENTER), 0, 0,
                   Deadband(cy_frame - run.face[2], DEADBAND_EYE_Y), FRAME_H \div 2,
                   run.adv, EYE_V_MIN_CN, EYE_V_MAX_CN).smooth - Deg(EYE_LEFT_V_CENTER))

TrackDirYaw ==
    Sign(CnNeckAxis(Deg(YAW_CENTER), 0, 0,
                    Deadband((run.face[1] - cx_frame) * INVERT_YAW, DEADBAND_NECK_X),
                    FRAME_W \div 2, run.adv, KP_YAW, KI_YAW, KD_YAW, SMOOTH_ALPHA_YAW,
                    YAW_MIN, YAW_MAX).smooth - Deg(YAW_CENTER))

TrackDirPitch ==
    Sign(CnNeckAxis(Deg(PITCH_CENTER), 0, 0,
                    Deadband((run.face[2] - cy_frame) * INVERT_PITCH, DEADBAND_NECK_Y),
                    FRAME_H \div 2, run.adv, KP_PITCH, KI_PITCH, KD_PITCH,
                    SMOOTH_ALPHA_PITCH, PITCH_MIN, PITCH_MAX).smooth - Deg(PITCH_CENTER))

\* the axis went the way dir says, as far as its limits let it
SweptAlong(dir, old, new, lo, hi) ==
    /\ dir = 1 => new >= old /\ (old < Deg(hi) => new > old)
    /\ dir = -1 => new <= old /\ (old > Deg(lo) => new < old)

SearchStep ==
    (cn'.pc = "loop" /\ cn'.did = "searching") =>
        /\ SweptAlong(TrackDirEyeH, cn.last_eye_left_h, cn'.last_eye_left_h,
                      EYE_H_MIN_CN, EYE_H_MAX_CN)
        /\ SweptAlong(TrackDirEyeH, cn.last_eye_right_h, cn'.last_eye_right_h,
                      EYE_H_MIN_CN, EYE_H_MAX_CN)
        /\ SweptAlong(TrackDirEyeV, cn.last_eye_left_v, cn'.last_eye_left_v,
                      EYE_V_MIN_CN, EYE_V_MAX_CN)
        /\ SweptAlong(TrackDirEyeV, cn.last_eye_right_v, cn'.last_eye_right_v,
                      EYE_V_MIN_CN, EYE_V_MAX_CN)
        /\ SweptAlong(TrackDirYaw, cn.last_yaw, cn'.last_yaw, YAW_MIN, YAW_MAX)
        /\ SweptAlong(TrackDirPitch, cn.last_pitch, cn'.last_pitch, PITCH_MIN, PITCH_MAX)

\* C34: every searching iteration moves each swept axis, eyes and neck, in
\* the angular direction in which the tracking update moves that axis for a
\* face on the side where the face was last seen: up where tracking
\* increases the angle, down where it decreases it (the inversion flags
\* taken into account)
SearchFollowsTracking == [][SearchStep]_vars

\* the face was last seen to the right: the search has taken the eyes above
\* their horizontal centre and the yaw below its centre
SearchingToTheRight ==
    /\ cn.pc = "loop"
    /\ cn.did = "searching"
    /\ cn.last_seen_dir_x = 1
    /\ TrackDirEyeH = 1 /\ TrackDirYaw = -1
    /\ cn.last_eye_left_h > Deg(EYE_LEFT_H_CENTER)
    /\ cn.last_yaw < Deg(YAW_CENTER)

\* ------------------------------------------------------------------------
\* C35: the roll servos mirror the pitch
\* ------------------------------------------------------------------------
\* int(ROLL_MAX - (p - PITCH_MIN) / (PITCH_MAX - PITCH_MIN) * (ROLL_MAX - ROLL_MIN))
\* for a whole number of degrees p, in degrees
RollOfPitch(p) ==
    (ROLL_MAX * (PITCH_MAX - PITCH_MIN) - (p - PITCH_MIN) * (ROLL_MAX - ROLL_MIN))
        \div (PITCH_MAX - PITCH_MIN)

RollMirrorsPitch ==
    /\ servo[SERVO_ROLL_LEFT] = servo[SERVO_ROLL_RIGHT]
    /\ servo[SERVO_PITCH] % 1000 = 0
    /\ servo[SERVO_ROLL_LEFT] = Deg(RollOfPitch(servo[SERVO_PITCH] \div 1000))
    /\ servo[SERVO_ROLL_LEFT] >= Deg(ROLL_MIN)
    /\ servo[SERVO_ROLL_LEFT] <= Deg(ROLL_MAX)

RollWithPitch ==
    (pc' = "loop" /\ SERVO_PITCH \in Range(writes')) =>
        {SERVO_ROLL_LEFT, SERVO_ROLL_RIGHT} \subseteq Range(writes')

\* C35: after every iteration of the loop the angles last commanded to the
\* left and to the right roll servo are equal, are the value the roll
\* formula gives for the pitch last commanded, and lie in
\* [ROLL_MIN, ROLL_MAX]; an iteration that commands the pitch, tracking,
\* searching or returning, commands both roll servos as well
RollFollowsPitch ==
    /\ [](pc = "loop" => RollMirrorsPitch)
    /\ [][RollWithPitch]_vars

\* the search has taken the pitch to its lower limit and the roll servos to
\* their upper limit
RollAtMaxWhileSearching ==
    /\ pc = "loop"
    /\ tick.head_did = "searching"
    /\ servo[SERVO_PITCH] = Deg(PITCH_MIN)
    /\ servo[SERVO_ROLL_LEFT] = Deg(ROLL_MAX)
    /\ servo[SERVO_ROLL_RIGHT] = Deg(ROLL_MAX)

\* ------------------------------------------------------------------------
\* C36: the head compensation goes the way the eyes look
\* ------------------------------------------------------------------------
\* calculate_head_compensation on the eye angles of the frame before
PitchFollowsEyesStep ==
    LET eye_v_center == Deg(EYE_V_MAX + EYE_V_MIN) \div 2
        eye_avg_v == (inmoov.current_eye_left_v + inmoov.current_eye_right_v) \div 2
        beyond == Abs(eye_avg_v - eye_v_center) * 1000
                     > HEAD_THRESHOLD * (Deg(EYE_V_MAX - EYE_V_MIN) \div 2)
        pitch == inmoov.current_pitch
        pitch2 == inmoov'.current_pitch
    IN  (inmoov'.have_face /\ beyond) =>
            /\ pitch2 >= Deg(PITCH_MIN_INMOOV) /\ pitch2 <= Deg(PITCH_MAX_INMOOV)
            /\ eye_avg_v < eye_v_center =>
                  pitch2 <= pitch /\ (pitch > Deg(PITCH_MIN_INMOOV) => pitch2 < pitch)
            /\ eye_avg_v > eye_v_center =>
                  pitch2 >= pitch /\ (pitch < Deg(PITCH_MAX_INMOOV) => pitch2 > pitch)

\* C36: when the average vertical eye angle is beyond the threshold fraction
\* of its range, calculate_head_compensation moves the pitch the way the
\* eyes look: eyes up (average below the eye centre) take the pitch down
\* towards PITCH_MIN (head up), eyes down take it up towards PITCH_MAX (head
\* down), always inside [PITCH_MIN, PITCH_MAX]
PitchFollowsEyes == [][PitchFollowsEyesStep]_vars

\* ------------------------------------------------------------------------
\* C37: the shutdown sequence runs once
\* ------------------------------------------------------------------------
\* C37: however the loop ends, a failed read, a failing detector or Ctrl+C
\* at any point of an iteration, the shutdown sequence (servos to the
\* centre, camera released, exit) has been run exactly once when the
\* process is gone, and nothing is commanded after it
ShutdownRunsOnce == pc = "exited" => cleanups = 1

\* ------------------------------------------------------------------------
\* C38: initialize centres the servos, set_angle needs an initialized service
\* ------------------------------------------------------------------------
\* C38: when initialize has returned True both servos have been commanded
\* to the 90 degree centre during the call, is_initialized is True and the
\* stored position is (90, 90); a set_angle on a service that is not
\* initialized, before initialize or after cleanup, sends no command and
\* returns False
InitializeCentersServos ==
    /\ (svc.constructed /\ svc.call = "initialize" /\ svc.returned) =>
          /\ svc.sent = <<Deg(90), Deg(90)>>
          /\ svc.is_initialized
          /\ svc.current_horizontal = Deg(90)
          /\ svc.current_vertical = Deg(90)
    /\ (svc.constructed /\ svc.call = "set_angle" /\ ~svc.is_initialized) =>
          /\ svc.sent = << >>
          /\ ~svc.returned

=============================================================================
